---- MODULE Spec2Model ----
(***************************************************************************)
(* Event-lifecycle engine of the planIT scheduler back end: the Event      *)
(* collection, the structural entry points (create, delete, status update,  *)
(* split) and the /chat commands that split and mark events.  Timestamps    *)
(* are milliseconds counted from an arbitrary base instant, as JavaScript   *)
(* Date arithmetic sees them.                                               *)
(***************************************************************************)
EXTENDS Integers, Sequences, FiniteSets, TLC

VARIABLES
    events,   \* the Event collection: _id -> document
    nextId,   \* next fresh _id (ObjectIds are never reused)
    now,      \* the server clock, dayjs().tz(TZ)
    res,      \* the response of the last request
    seg       \* input and result of one run of a pure function of the
              \* handlers (the segmentation plan, the suggestions)

vars == <<events, nextId, now, res, seg>>

(***************************************************************************)
(* Program constants                                                       *)
(***************************************************************************)
MsPerMinute == 60000
MinSplitMinutes == 180

(***************************************************************************)
(* Bounds of the model                                                     *)
(***************************************************************************)
MaxEvents == 4        \* ids ever handed out in Spec
MaxSplitEvents == 5   \* ids ever handed out in SpecSplit
MaxRoots == 1         \* events that are nobody's segment, at one time, in Spec
MaxSplitRoots == 2    \* the same in SpecSplit
MaxCount == 3         \* largest count a split request asks for
MaxChildren == 3      \* largest family the status requests start from
MaxPlanMinutes == 7   \* parent lengths 1..MaxPlanMinutes of the plan runs
MaxPlanCount == 4     \* counts 0..MaxPlanCount of the plan runs
MaxPlanBreak == 3     \* breaks -1..MaxPlanBreak of the plan runs
MaxSuggestMinutes == 2 \* durations 0..MaxSuggestMinutes of the suggestion runs
MaxEditEvents == 2    \* ids ever handed out in SpecEdit
MaxUpdateEvents == 1  \* ids ever handed out in SpecUpdate

(***************************************************************************)
(* Null values of the schema, one per field type                           *)
(***************************************************************************)
NullStatus == "null"
NoParent == 0
NoIndex == -1
Absent == -1          \* a request field or regex group that is not there

Users == {"u1", "u2"}

Max(a, b) == IF a >= b THEN a ELSE b

(***************************************************************************)
(* eventSchema                                                             *)
(***************************************************************************)
NewEvent(title, start, end, importance, urgency, difficulty, userId, segmentOf, segmentIndex) ==
    [title |-> title, start |-> start, end |-> end,
     importance |-> importance, urgency |-> urgency, difficulty |-> difficulty,
     userId |-> userId, status |-> NullStatus,
     segmentOf |-> segmentOf, segmentIndex |-> segmentIndex]

(***************************************************************************)
(* Responses.  code is the HTTP status, err names the error or message     *)
(* branch ("" on success), op names the handler (for /chat: the intent),   *)
(* id the event the request was resolved to.  A split response also echoes *)
(* its request: count as asked for, n and brk as the handler uses them; a  *)
(* conflict response names the conflicting event and lists the suggested   *)
(* slots.  The response of a creation or edit request echoes the candidate *)
(* interval, its owner and allowDouble.                                    *)
(***************************************************************************)
Resp(op, code, err) ==
    [op |-> op, code |-> code, err |-> err, id |-> 0,
     parentUpdated |-> FALSE, finalized |-> FALSE, parent |-> 0,
     count |-> Absent, n |-> 0, brk |-> 0,
     conflict |-> 0, suggestions |-> <<>>,
     start |-> Absent, end |-> Absent, userId |-> "", allowDouble |-> FALSE,
     status |-> "", kw |-> {}]

Candidate(r, start, end, userId, allowDouble) ==
    [r EXCEPT !.start = start, !.end = end, !.userId = userId, !.allowDouble = allowDouble]

NoSeg ==
    [s |-> 0, e |-> 0, count |-> 0, breakMinutes |-> 0,
     done |-> FALSE, path |-> "", n |-> 0, brk |-> 0, err |-> "", plan |-> <<>>]

(***************************************************************************)
(* Segmentation plan                                                       *)
(***************************************************************************)
\* Math.max(1, parseInt(count, 10) || 0)
SplitCount(count) == Max(1, count)

\* Math.max(0, parseInt(breakMinutes, 10) || 0)
SplitBreak(breakMinutes) == Max(0, breakMinutes)

\* Math.floor((e - s) / 60000)
TotalMinutes(s, e) == (e - s) \div MsPerMinute

UsableMinutes(totalMinutes, n, brk) == totalMinutes - (n - 1) * brk

\* a variant that lets a plan of no usable time through
BreaksTooLargeStrict(usable) == usable < 0

\* if (usable <= 0) ...
BreaksTooLarge(usable) == usable <= 0

\* a variant that loses the remainder minutes
ThisDurNoRemainder(baseSeg, remainder) == baseSeg

\* a variant that keeps handing out an extra minute when none is left
ThisDurAlways(baseSeg, remainder) == baseSeg + (IF remainder >= 0 THEN 1 ELSE 0)

\* baseSeg + (remainder > 0 ? 1 : 0)
ThisDur(baseSeg, remainder) == baseSeg + (IF remainder > 0 THEN 1 ELSE 0)

\* the for loop: one iteration per segment, carrying cursor and remainder
RECURSIVE PlanLoop(_, _, _, _, _, _)
PlanLoop(i, n, cursor, remainder, baseSeg, brk) ==
    IF i >= n THEN <<>>
    ELSE LET thisDur == ThisDur(baseSeg, remainder)
             rem2 == IF remainder > 0 THEN remainder - 1 ELSE remainder
             segStart == cursor
             segEnd == segStart + thisDur * MsPerMinute
             cursor2 == IF i < n - 1 THEN segEnd + brk * MsPerMinute ELSE segEnd
         IN <<[startMs |-> segStart, endMs |-> segEnd]>>
              \o PlanLoop(i + 1, n, cursor2, rem2, baseSeg, brk)

BuildPlan(s, n, brk, usable) ==
    PlanLoop(0, n, s, usable % n, usable \div n, brk)

\* The validation and planning of POST /events/:id/split for a parent
\* [s, e]: the error it answers with, or the plan.
SplitPlan(s, e, count, breakMinutes) ==
    LET n == SplitCount(count)
        brk == SplitBreak(breakMinutes)
        totalMinutes == TotalMinutes(s, e)
        usable == UsableMinutes(totalMinutes, n, brk)
    IN  IF ~(e > s) THEN [err |-> "invalid_parent_range", plan |-> <<>>]
        ELSE IF n < 2 THEN [err |-> "nothing_to_split", plan |-> <<>>]
        ELSE IF BreaksTooLarge(usable) THEN [err |-> "breaks_too_large", plan |-> <<>>]
        ELSE [err |-> "", plan |-> BuildPlan(s, n, brk, usable)]

(***************************************************************************)
(* Store queries                                                           *)
(***************************************************************************)
\* a variant of the lookup that finds no segment
ChildrenNone(p) == {}

\* Event.find({ segmentOf: p }) on a collection ev
ChildrenIn(ev, p) == {c \in DOMAIN ev : ev[c].segmentOf = p}

Children(p) == ChildrenIn(events, p)

Roots == {i \in DOMAIN events : events[i].segmentOf = NoParent}

\* a variant that finalizes on the first resolved segment
AllResolvedAny(completed, missed, total) == completed + missed >= 1

\* completed + missed === total
AllResolved(completed, missed, total) == completed + missed = total

\* a variant that forgets the missed segments
FinalStatusCompleted(missed) == "completed"

\* missed === 0 ? "completed" : "missed"
FinalStatus(missed) == IF missed = 0 THEN "completed" ELSE "missed"

\* The finalization step shared by the status routes: read the children of
\* parentId from ev, and write the parent when all of them are resolved.
Finalize(ev, parentId) ==
    LET children == ChildrenIn(ev, parentId)
        total == Cardinality(children)
        completed == Cardinality({c \in children : ev[c].status = "completed"})
        missed == Cardinality({c \in children : ev[c].status = "missed"})
    IN  IF AllResolved(completed, missed, total)
        THEN [fired |-> TRUE,
              status |-> FinalStatus(missed),
              ev |-> IF parentId \in DOMAIN ev
                     THEN [ev EXCEPT ![parentId].status = FinalStatus(missed)]
                     ELSE ev]
        ELSE [fired |-> FALSE, status |-> NullStatus, ev |-> ev]

(***************************************************************************)
(* Request bodies of POST /events                                          *)
(***************************************************************************)
Body(title, start, minutes, extraMs, importance, urgency, difficulty, userId, allowDouble) ==
    [title |-> title, start |-> start, end |-> start + minutes * MsPerMinute + extraMs,
     importance |-> importance, urgency |-> urgency, difficulty |-> difficulty,
     userId |-> userId, allowDouble |-> allowDouble]

\* a 360-minute event, a 179.5-minute and a 1-minute event of another
\* owner, the first one again with allowDouble, and an empty interval
CreateBodies ==
    { Body(<<"study">>, 60 * MsPerMinute, 360, 0, "high", "low", "hard", "u1", FALSE),
      Body(<<"gym">>, 120 * MsPerMinute, 179, 30000, "low", "high", "", "u2", FALSE),
      Body(<<"nap">>, 30 * MsPerMinute, 1, 0, "low", "low", "easy", "u2", FALSE),
      Body(<<"study">>, 60 * MsPerMinute, 360, 0, "high", "low", "hard", "u1", TRUE),
      Body(<<"gym">>, 60 * MsPerMinute, 0, 0, "low", "low", "easy", "u2", FALSE) }

(***************************************************************************)
(* Init                                                                    *)
(***************************************************************************)
Init ==
    /\ events = <<>>
    /\ nextId = 1
    /\ now = 200 * MsPerMinute
    /\ res = Resp("none", 0, "")
    /\ seg = NoSeg

(***************************************************************************)
(* POST /events                                                            *)
(***************************************************************************)
\* the document Event.create makes from a request body
EventOfBody(body) ==
    NewEvent(body.title, body.start, body.end, body.importance, body.urgency,
             IF body.difficulty = "" THEN "medium" ELSE body.difficulty,
             body.userId, NoParent, NoIndex)

CreateEvent(body) ==
    LET s == body.start
        e == body.end
        conflicts == {i \in DOMAIN events :
                         /\ events[i].userId = body.userId
                         /\ events[i].start = s
                         /\ events[i].end = e}
        echo(r) == Candidate(r, s, e, body.userId, body.allowDouble)
    IN  /\ IF body.title = <<>>
           THEN /\ res' = echo(Resp("create", 400, "all_fields_required"))
                /\ UNCHANGED <<events, nextId>>
           ELSE IF e <= s
           THEN /\ res' = echo(Resp("create", 400, "invalid_date_range"))
                /\ UNCHANGED <<events, nextId>>
           ELSE IF ~body.allowDouble /\ conflicts # {}
           THEN /\ \E c \in conflicts :
                      res' = echo([Resp("create", 409, "exact_duplicate") EXCEPT
                                     !.id = c, !.conflict = c])
                /\ UNCHANGED <<events, nextId>>
           ELSE /\ events' = (nextId :> EventOfBody(body)) @@ events
                /\ nextId' = nextId + 1
                /\ res' = echo([Resp("create", 201, "") EXCEPT !.id = nextId])
        /\ UNCHANGED <<now, seg>>

(***************************************************************************)
(* DELETE /events/:id                                                      *)
(***************************************************************************)
DeleteEvent(id) ==
    /\ IF id \notin DOMAIN events
       THEN UNCHANGED events
       ELSE events' = [i \in (DOMAIN events \ ({id} \cup Children(id))) |-> events[i]]
    /\ res' = [Resp("delete", 200, "") EXCEPT !.id = id]
    /\ UNCHANGED <<nextId, now, seg>>

(***************************************************************************)
(* PATCH /events/:id/status                                                *)
(***************************************************************************)
\* a variant that cascades whatever the status is
CascadesAlways(status) == TRUE

\* !event.segmentOf && status === "completed"
Cascades(status) == status = "completed"

StatusUpdate(id, status) ==
    /\ IF status \notin {"completed", "missed"}
       THEN /\ res' = Resp("status", 400, "invalid_status")
            /\ UNCHANGED events
       ELSE IF id \notin DOMAIN events
       THEN /\ res' = Resp("status", 404, "event_not_found")
            /\ UNCHANGED events
       ELSE LET ev1 == [events EXCEPT ![id].status = status]
                parentId == events[id].segmentOf
                fin == IF parentId # NoParent
                       THEN Finalize(ev1, parentId)
                       ELSE [fired |-> FALSE, status |-> NullStatus, ev |-> ev1]
                kids == {c \in DOMAIN fin.ev : /\ fin.ev[c].segmentOf = id
                                               /\ fin.ev[c].status = NullStatus}
                cascade == parentId = NoParent /\ Cascades(status) /\ kids # {}
                ev3 == IF cascade
                       THEN [c \in DOMAIN fin.ev |->
                               IF c \in kids THEN [fin.ev[c] EXCEPT !.status = "completed"]
                               ELSE fin.ev[c]]
                       ELSE fin.ev
            IN  /\ events' = ev3
                /\ res' = [Resp("status", 200, "") EXCEPT
                             !.id = id,
                             !.parentUpdated = fin.fired,
                             !.parent = IF fin.fired /\ parentId \in DOMAIN events
                                        THEN parentId ELSE 0,
                             !.finalized = fin.fired \/ cascade]
    /\ UNCHANGED <<nextId, now, seg>>

(***************************************************************************)
(* Titles.  A title is the sequence of its words; a title regex built from *)
(* a guess matches the titles that contain the guess's words as one run    *)
(* (case-insensitive, so all words are kept in lower case).                *)
(***************************************************************************)
\* new RegExp(escapeRegExp(guess), "i") tested on a title
TitleMatches(guess, title) ==
    \E k \in 0..(Len(title) - Len(guess)) : SubSeq(title, k + 1, k + Len(guess)) = guess

\* $and: tokens.map((t) => ({ title: { $regex: t } }))
TokensMatch(guess, title) ==
    \A k \in 1..Len(guess) : \E j \in 1..Len(title) : title[j] = guess[k]

\* `${baseTitle} — Segment ${i + 1}`
SegmentTitle(baseTitle, i) == baseTitle \o <<"--", "segment", ToString(i + 1)>>

\* .sort({ start: -1 }) then findOne: a candidate no other one starts after
Latest(cands) == {c \in cands : \A d \in cands : events[d].start <= events[c].start}

\* .sort({ start: 1 }) then findOne
Earliest(cands) == {c \in cands : \A d \in cands : events[c].start <= events[d].start}

(***************************************************************************)
(* POST /events/:id/split                                                  *)
(***************************************************************************)
SplitBody(count, breakMinutes, titlePrefix, titles) ==
    [count |-> count, breakMinutes |-> breakMinutes, titlePrefix |-> titlePrefix, titles |-> titles]

\* the request bodies tried: every count 0..MaxCount without options (0
\* stands for a missing or non-numeric count too), a break that leaves no
\* usable minute, and a split with a title prefix and one segment name
SplitBodies ==
    {SplitBody(count, 0, <<>>, <<>>) : count \in 0..MaxCount}
    \cup {SplitBody(2, 360, <<>>, <<>>), SplitBody(2, 10, <<"part">>, << <<"intro">> >>)}

\* the documents Event.create makes for a plan, under the ids first, first+1, ...
SegmentDocs(parent, parentId, plan, first, baseTitle, titles) ==
    [c \in first..(first + Len(plan) - 1) |->
        LET i == c - first
        IN  NewEvent(IF i + 1 <= Len(titles) /\ titles[i + 1] # <<>>
                     THEN titles[i + 1] ELSE SegmentTitle(baseTitle, i),
                     plan[i + 1].startMs, plan[i + 1].endMs,
                     parent.importance, parent.urgency, parent.difficulty,
                     parent.userId, parentId, i)]

Split(id, body) ==
    LET count == body.count
        breakMinutes == body.breakMinutes
        titlePrefix == body.titlePrefix
        titles == body.titles
    IN
    /\ IF id \notin DOMAIN events
       THEN /\ res' = Resp("split", 404, "parent_not_found")
            /\ UNCHANGED <<events, nextId>>
       ELSE LET parent == events[id]
                sp == SplitPlan(parent.start, parent.end, count, breakMinutes)
                n == SplitCount(count)
                brk == SplitBreak(breakMinutes)
                baseTitle == IF titlePrefix # <<>> THEN titlePrefix ELSE parent.title
            IN  IF sp.err # ""
                THEN /\ res' = [Resp("split", 400, sp.err) EXCEPT
                                  !.id = id, !.count = count, !.n = n, !.brk = brk]
                     /\ UNCHANGED <<events, nextId>>
                ELSE /\ events' = SegmentDocs(parent, id, sp.plan, nextId, baseTitle, titles) @@ events
                     /\ nextId' = nextId + n
                     /\ res' = [Resp("split", 200, "") EXCEPT
                                  !.id = id, !.count = count, !.n = n, !.brk = brk]
    /\ UNCHANGED <<now, seg>>

(***************************************************************************)
(* POST /chat, SPLIT_TASK.  The text is kept as what the handler's regexes *)
(* see of it: the title words, the number after "into" (Absent when there  *)
(* is none), whether "segments"/"parts" follows that number, and the       *)
(* number of the "with N m breaks" phrase.                                 *)
(***************************************************************************)
SplitText(title, into, unit, brk) == [title |-> title, into |-> into, unit |-> unit, brk |-> brk]

\* guessTitle on a split text: "into N" is stripped only together with a
\* following "segments"/"parts"; the break phrase is always stripped.
GuessTitle(text) ==
    LET t == text.title \o (IF text.into # Absent /\ ~text.unit
                            THEN <<"into", ToString(text.into)>> ELSE <<>>)
    IN  IF t = <<>> THEN <<"untitled", "task">> ELSE t

\* lower.match(/\binto\s+(\d{1,2})\b/); Math.max(2, mCount ? parseInt(mCount[1], 10) : 2)
ChatCount(into) == Max(2, IF into # Absent /\ into <= 99 THEN into ELSE 2)

\* mBreak ? parseInt(mBreak[1], 10) : 0
ChatBreak(brk) == IF brk # Absent THEN brk ELSE 0

ChatTitles == {<<"study">>, <<"gym">>}

\* the split texts tried for a title X: "split X", "split X into N segments"
\* for N in 1..MaxCount, "split X into 3" (no unit word), and the same with
\* a break phrase of 10 and of 360 minutes
SplitTexts ==
    {SplitText(t, Absent, FALSE, Absent) : t \in ChatTitles}
    \cup {SplitText(t, n, TRUE, Absent) : t \in ChatTitles, n \in 1..MaxCount}
    \cup {SplitText(t, 3, FALSE, Absent) : t \in ChatTitles}
    \cup {SplitText(t, 3, TRUE, 10) : t \in ChatTitles}
    \cup {SplitText(t, 2, TRUE, 360) : t \in ChatTitles}

\* The validation and planning of SPLIT_TASK for a target [s, e]: the
\* breaks check comes first, then the 180-minute minimum, then the plan.
ChatSplitPlan(s, e, count, breakMinutes) ==
    LET totalMinutes == TotalMinutes(s, e)
        usable == UsableMinutes(totalMinutes, count, breakMinutes)
    IN  IF BreaksTooLarge(usable) THEN [err |-> "breaks_too_large", plan |-> <<>>]
        ELSE IF totalMinutes < MinSplitMinutes THEN [err |-> "below_minimum", plan |-> <<>>]
        ELSE [err |-> "", plan |-> BuildPlan(s, count, breakMinutes, usable)]

ChatSplit(userId, text) ==
    LET titleGuess == GuessTitle(text)
        cands == Latest({i \in DOMAIN events :
                            /\ events[i].userId = userId
                            /\ TitleMatches(titleGuess, events[i].title)
                            /\ events[i].status = NullStatus})
    IN  /\ IF cands = {}
           THEN /\ res' = Resp("SPLIT_TASK", 200, "cannot_find_task")
                /\ UNCHANGED <<events, nextId>>
           ELSE \E id \in cands :
                LET ev == events[id]
                    count == ChatCount(text.into)
                    breakMinutes == ChatBreak(text.brk)
                    sp == ChatSplitPlan(ev.start, ev.end, count, breakMinutes)
                IN  IF sp.err # ""
                    THEN /\ res' = [Resp("SPLIT_TASK",
                                         IF sp.err = "below_minimum" THEN 400 ELSE 200,
                                         sp.err) EXCEPT
                                      !.id = id, !.count = text.into,
                                      !.n = count, !.brk = breakMinutes]
                         /\ UNCHANGED <<events, nextId>>
                    ELSE /\ events' = SegmentDocs(ev, id, sp.plan, nextId, ev.title, <<>>) @@ events
                         /\ nextId' = nextId + count
                         /\ res' = [Resp("SPLIT_TASK", 200, "") EXCEPT
                                      !.id = id, !.count = text.into,
                                      !.n = count, !.brk = breakMinutes]
        /\ UNCHANGED <<now, seg>>

(***************************************************************************)
(* POST /chat, MARK and MARK_SEGMENT.  The text is kept as the title guess *)
(* its regexes extract, the segment number and the status word.            *)
(***************************************************************************)
\* The three-step lookup of the parent a mark command names: a root whose
\* title contains the guess, else a root whose title has every word of the
\* guess, else the parent of a segment whose title contains the guess.
ResolveParent(uid, titleGuess) ==
    LET byTitle == {i \in DOMAIN events : /\ events[i].userId = uid
                                          /\ events[i].segmentOf = NoParent
                                          /\ TitleMatches(titleGuess, events[i].title)}
        byTokens == {i \in DOMAIN events : /\ events[i].userId = uid
                                           /\ events[i].segmentOf = NoParent
                                           /\ TokensMatch(titleGuess, events[i].title)}
        byChild == {i \in DOMAIN events : /\ events[i].userId = uid
                                          /\ TitleMatches(titleGuess, events[i].title)
                                          /\ events[i].segmentOf # NoParent}
    IN  IF byTitle # {} THEN Latest(byTitle)
        ELSE IF titleGuess # <<>> /\ byTokens # {} THEN Latest(byTokens)
        ELSE {events[c].segmentOf : c \in Latest(byChild)} \cap DOMAIN events

\* children[segIndex] of find({segmentOf}).sort({ segmentIndex: 1, start: 1 }):
\* the children that can stand at position segIndex of the sorted list
Before(c, d) ==
    \/ events[c].segmentIndex < events[d].segmentIndex
    \/ /\ events[c].segmentIndex = events[d].segmentIndex
       /\ events[c].start < events[d].start

AtPosition(children, segIndex) ==
    {c \in children :
        /\ Cardinality({d \in children : Before(d, c)}) <= segIndex
        /\ segIndex < Cardinality({d \in children : ~Before(c, d)})}

\* desiredStatus === "completed" && dayjs(end).isAfter(nowPH)
StillInFuture(desiredStatus, end) == desiredStatus = "completed" /\ end > now

\* the answer to a mark command, with the status the command asked for
MarkResp(op, err, desiredStatus) == [Resp(op, 200, err) EXCEPT !.status = desiredStatus]

\* the write of one segment followed by the finalization of its parent
MarkSegmentWrite(chosen, parentId, desiredStatus) ==
    LET ev1 == [events EXCEPT ![chosen].status = desiredStatus]
        fin == Finalize(ev1, parentId)
    IN  /\ events' = fin.ev
        /\ res' = [MarkResp("MARK_SEGMENT", "", desiredStatus) EXCEPT
                     !.id = chosen, !.parent = parentId, !.finalized = fin.fired]

MarkStatuses == {"completed", "missed"}

ChatMarkSegment(userId, titleGuess, segNum, desiredStatus) ==
    LET segIndex == Max(0, segNum - 1)
        parents == ResolveParent(userId, titleGuess)
    IN  /\ IF parents = {}
           THEN /\ res' = MarkResp("MARK_SEGMENT", "cannot_find_parent", desiredStatus)
                /\ UNCHANGED events
           ELSE \E parentId \in parents :
                LET byIndex == Earliest({c \in Children(parentId) :
                                           /\ events[c].segmentIndex = segIndex
                                           /\ events[c].userId = events[parentId].userId})
                    children == Children(parentId)
                IN  IF byIndex = {}
                    THEN IF children = {}
                         THEN /\ res' = [MarkResp("MARK_SEGMENT", "no_segments", desiredStatus) EXCEPT !.parent = parentId]
                              /\ UNCHANGED events
                         ELSE IF segIndex >= Cardinality(children)
                         THEN /\ res' = [MarkResp("MARK_SEGMENT", "segment_not_found", desiredStatus) EXCEPT !.parent = parentId]
                              /\ UNCHANGED events
                         ELSE \E chosen \in AtPosition(children, segIndex) :
                                IF StillInFuture(desiredStatus, events[chosen].end)
                                THEN /\ res' = [MarkResp("MARK_SEGMENT", "still_in_future", desiredStatus) EXCEPT
                                                  !.id = chosen, !.parent = parentId]
                                     /\ UNCHANGED events
                                ELSE MarkSegmentWrite(chosen, parentId, desiredStatus)
                    ELSE \E child \in byIndex :
                           IF StillInFuture(desiredStatus, events[child].end)
                           THEN /\ res' = [MarkResp("MARK_SEGMENT", "still_in_future", desiredStatus) EXCEPT
                                             !.id = child, !.parent = parentId]
                                /\ UNCHANGED events
                           ELSE MarkSegmentWrite(child, parentId, desiredStatus)
        /\ UNCHANGED <<nextId, now, seg>>

ChatMark(userId, titleGuess, desiredStatus) ==
    LET parents == ResolveParent(userId, titleGuess)
    IN  /\ IF parents = {}
           THEN /\ res' = MarkResp("MARK", "cannot_find_parent", desiredStatus)
                /\ UNCHANGED events
           ELSE \E parentId \in parents :
                LET kids == Children(parentId)
                    futureKids == {k \in kids : events[k].end > now}
                    touched == IF desiredStatus = "completed" THEN kids
                               ELSE {k \in kids : events[k].status = NullStatus}
                IN  IF desiredStatus = "completed" /\ futureKids # {}
                    THEN /\ res' = [MarkResp("MARK", "segments_in_future", desiredStatus) EXCEPT !.id = parentId]
                         /\ UNCHANGED events
                    ELSE IF desiredStatus = "completed" /\ kids = {} /\ events[parentId].end > now
                    THEN /\ res' = [MarkResp("MARK", "still_in_future", desiredStatus) EXCEPT !.id = parentId]
                         /\ UNCHANGED events
                    ELSE /\ events' = [i \in DOMAIN events |->
                                         IF i \in touched \cup {parentId}
                                         THEN [events[i] EXCEPT !.status = desiredStatus]
                                         ELSE events[i]]
                         /\ res' = [MarkResp("MARK", "", desiredStatus) EXCEPT !.id = parentId]
        /\ UNCHANGED <<nextId, now, seg>>

(***************************************************************************)
(* The clock                                                               *)
(***************************************************************************)
NowValues == {200 * MsPerMinute, 600 * MsPerMinute}

Tick ==
    /\ \E t \in NowValues : t > now /\ now' = t
    /\ UNCHANGED <<events, nextId, res, seg>>

(***************************************************************************)
(* Spec: the whole life of the store, from the empty collection            *)
(***************************************************************************)
SegNums == 0..MaxCount
Ids == 1..MaxEvents
SplitIds == 1..MaxSplitEvents

\* the cap on a step that creates events: at most cap ids are ever handed
\* out and at most roots events that are nobody's segment exist
Within(cap, roots) ==
    /\ nextId' <= cap + 1
    /\ Cardinality({i \in DOMAIN events' : events'[i].segmentOf = NoParent}) <= roots

Next ==
    \/ \E body \in CreateBodies : CreateEvent(body) /\ Within(MaxEvents, MaxRoots)
    \/ \E id \in Ids, status \in {"completed", "missed", "pending"} : StatusUpdate(id, status)
    \/ \E id \in Ids, body \in SplitBodies : Split(id, body) /\ Within(MaxEvents, MaxRoots)
    \/ \E userId \in Users, text \in SplitTexts : ChatSplit(userId, text) /\ Within(MaxEvents, MaxRoots)
    \/ \E userId \in Users, titleGuess \in ChatTitles, segNum \in SegNums,
          desiredStatus \in MarkStatuses :
          ChatMarkSegment(userId, titleGuess, segNum, desiredStatus)
    \/ \E userId \in Users, titleGuess \in ChatTitles, desiredStatus \in MarkStatuses :
          ChatMark(userId, titleGuess, desiredStatus)
    \/ Tick

Spec == Init /\ [][Next]_vars

(***************************************************************************)
(* SpecSplit: the creation and split requests alone                        *)
(***************************************************************************)
NextSplit ==
    \/ \E body \in CreateBodies : CreateEvent(body) /\ Within(MaxSplitEvents, MaxSplitRoots)
    \/ \E id \in SplitIds, body \in SplitBodies : Split(id, body) /\ Within(MaxSplitEvents, MaxSplitRoots)
    \/ \E userId \in Users, text \in SplitTexts : ChatSplit(userId, text) /\ Within(MaxSplitEvents, MaxSplitRoots)

SpecSplit == Init /\ [][NextSplit]_vars

(***************************************************************************)
(* SpecStatus: the status requests on one segmented event.  It starts from *)
(* the store as POST /events followed by one POST /events/:id/split leave  *)
(* it: a parent under id 1 and its count segments under ids 2..count+1.    *)
(***************************************************************************)
FamilyBodies == {b \in CreateBodies : b.end > b.start /\ ~b.allowDouble}

Family(body, count) ==
    LET parent == EventOfBody(body)
        sp == SplitPlan(parent.start, parent.end, count, 0)
    IN  SegmentDocs(parent, 1, sp.plan, 2, parent.title, <<>>) @@ (1 :> parent)

FamilyIds == 1..(MaxChildren + 1)
FamilySegNums == 0..(MaxChildren + 1)

InitStatus ==
    /\ \E body \in FamilyBodies, count \in 2..MaxChildren :
          /\ events = Family(body, count)
          /\ nextId = count + 2
    /\ now = 200 * MsPerMinute
    /\ res = Resp("none", 0, "")
    /\ seg = NoSeg

NextStatus ==
    \/ \E id \in FamilyIds, status \in {"completed", "missed", "pending"} : StatusUpdate(id, status)
    \/ \E userId \in Users, titleGuess \in ChatTitles, segNum \in FamilySegNums,
          desiredStatus \in MarkStatuses :
          ChatMarkSegment(userId, titleGuess, segNum, desiredStatus)
    \/ \E userId \in Users, titleGuess \in ChatTitles, desiredStatus \in MarkStatuses :
          ChatMark(userId, titleGuess, desiredStatus)
    \/ \E id \in FamilyIds : DeleteEvent(id)
    \/ Tick

SpecStatus == InitStatus /\ [][NextStatus]_vars

(***************************************************************************)
(* SpecPlan: single runs of the segmentation plan of either split path on  *)
(* a parent interval, a count and a break                                  *)
(***************************************************************************)
PlanMinutes ==
    (1..MaxPlanMinutes) \cup {MinSplitMinutes - 1 + k : k \in 0..MaxPlanMinutes} \cup {200}
PlanExtraMs == {0, 30000}
PlanCounts == 0..MaxPlanCount
PlanBreaks == (-1..MaxPlanBreak) \cup {10}
PlanStart == 60 * MsPerMinute

InitPlan ==
    /\ events = <<>>
    /\ nextId = 1
    /\ now = 200 * MsPerMinute
    /\ res = Resp("none", 0, "")
    /\ \E m \in PlanMinutes, x \in PlanExtraMs, count \in PlanCounts, b \in PlanBreaks :
          seg = [NoSeg EXCEPT !.s = PlanStart, !.e = PlanStart + m * MsPerMinute + x,
                              !.count = count, !.breakMinutes = b]

\* the structural route: count and breakMinutes as the request body has them
RunSplitPlan ==
    /\ ~seg.done
    /\ LET sp == SplitPlan(seg.s, seg.e, seg.count, seg.breakMinutes)
       IN  seg' = [seg EXCEPT !.done = TRUE, !.path = "split", !.err = sp.err, !.plan = sp.plan,
                              !.n = SplitCount(seg.count), !.brk = SplitBreak(seg.breakMinutes)]
    /\ UNCHANGED <<events, nextId, now, res>>

\* the chat route: count is the number after "into" and breakMinutes the
\* number of the break phrase (negative: the phrase is absent)
RunChatPlan ==
    /\ ~seg.done
    /\ LET into == IF seg.count = 0 THEN Absent ELSE seg.count
           mBreak == IF seg.breakMinutes < 0 THEN Absent ELSE seg.breakMinutes
           sp == ChatSplitPlan(seg.s, seg.e, ChatCount(into), ChatBreak(mBreak))
       IN  seg' = [seg EXCEPT !.done = TRUE, !.path = "chat", !.err = sp.err, !.plan = sp.plan,
                              !.n = ChatCount(into), !.brk = ChatBreak(mBreak)]
    /\ UNCHANGED <<events, nextId, now, res>>

NextPlan == RunSplitPlan \/ RunChatPlan

SpecPlan == InitPlan /\ [][NextPlan]_vars

(***************************************************************************)
(* Properties of the segmentation plan (SpecPlan)                          *)
(***************************************************************************)
PlanDur(p) == p.endMs - p.startMs

RECURSIVE SumDur(_)
SumDur(plan) == IF plan = <<>> THEN 0 ELSE PlanDur(Head(plan)) + SumDur(Tail(plan))

SegUsable == UsableMinutes(TotalMinutes(seg.s, seg.e), seg.n, seg.brk)

WholeMinutes(s, e) == (e - s) % MsPerMinute = 0

\* C4 (conservation).  A plan run on a parent interval with count n >= 2 and
\* break b >= 0 that leave usable = totalMinutes - (n-1)*b > 0 produces exactly
\* n segments whose durations are whole minutes summing to usable; the first
\* segment starts at the parent's start, consecutive segments are exactly b
\* minutes apart, and when the parent is a whole number of minutes long the
\* last segment ends at the parent's end.  The structural route produces a plan
\* for every such input.
C4_Conservation ==
    /\ (seg.done /\ seg.err = "") =>
          LET plan == seg.plan
              n == seg.n
          IN  /\ n >= 2 /\ seg.brk >= 0 /\ SegUsable > 0
              /\ Len(plan) = n
              /\ \A i \in 1..n : PlanDur(plan[i]) % MsPerMinute = 0
              /\ SumDur(plan) = SegUsable * MsPerMinute
              /\ plan[1].startMs = seg.s
              /\ \A i \in 1..(n - 1) :
                    plan[i + 1].startMs - plan[i].endMs = seg.brk * MsPerMinute
              /\ WholeMinutes(seg.s, seg.e) => plan[n].endMs = seg.e
    /\ (seg.done /\ seg.path = "split" /\ seg.e > seg.s
          /\ seg.n >= 2 /\ SegUsable > 0) => seg.err = ""

\* a 200-minute parent cut in 3 with 10-minute breaks: 60 + 60 + 60 minutes
C4_Witness ==
    /\ seg.done /\ seg.err = "" /\ seg.path = "split"
    /\ seg.e - seg.s = 200 * MsPerMinute
    /\ seg.n = 3 /\ seg.brk = 10
    /\ \A i \in 1..3 : PlanDur(seg.plan[i]) = 60 * MsPerMinute
    /\ seg.plan[3].endMs = seg.e

\* C5 (fairness).  In a produced plan, with base = usable div n and
\* r = usable mod n, segment i (counted from 0) lasts base + 1 minutes when
\* i < r and base minutes otherwise; no two segments differ by more than one
\* minute.
C5_Fairness ==
    (seg.done /\ seg.err = "") =>
        LET plan == seg.plan
            n == seg.n
            base == SegUsable \div n
            r == SegUsable % n
        IN  /\ \A i \in 1..Len(plan) :
                  PlanDur(plan[i]) = (IF i - 1 < r THEN base + 1 ELSE base) * MsPerMinute
            /\ \A i, j \in 1..Len(plan) :
                  PlanDur(plan[i]) - PlanDur(plan[j]) <= MsPerMinute

\* a 7-minute parent cut in 3 without break: 3 + 2 + 2 minutes
C5_Witness ==
    /\ seg.done /\ seg.err = ""
    /\ SegUsable = 7 /\ seg.n = 3
    /\ PlanDur(seg.plan[1]) = 3 * MsPerMinute
    /\ PlanDur(seg.plan[2]) = 2 * MsPerMinute
    /\ PlanDur(seg.plan[3]) = 2 * MsPerMinute

(***************************************************************************)
(* Properties of the status requests (SpecStatus, Spec)                    *)
(***************************************************************************)
\* the two requests that set the status of one segment
StatusOps == {"status", "MARK_SEGMENT"}

Resolved(ev, i) == ev[i].status # NullStatus

\* C1 (finalization value).  When a status update of a segment, by PATCH
\* /events/:id/status or by the chat MARK_SEGMENT command, leaves every child
\* of the segment's parent resolved, the response reports the finalization and
\* the parent's status is "missed" if some child is missed and "completed" if
\* none is.
C1_FinalizationValue ==
    (/\ res.op \in StatusOps /\ res.err = ""
     /\ res.id \in DOMAIN events
     /\ events[res.id].segmentOf # NoParent) =>
        LET p == events[res.id].segmentOf
            kids == Children(p)
        IN  (\A c \in kids : Resolved(events, c)) =>
                /\ res.finalized
                /\ res.op = "status" => res.parentUpdated
                /\ p \in DOMAIN events =>
                      events[p].status =
                          IF \E c \in kids : events[c].status = "missed"
                          THEN "missed" ELSE "completed"

\* [Completed, Completed, Missed]: the PATCH that resolves the last of three
\* segments as missed finalizes the parent as missed
C1_Witness ==
    /\ res.op = "status" /\ res.err = "" /\ res.finalized
    /\ res.id \in DOMAIN events
    /\ events[res.id].status = "missed"
    /\ LET p == events[res.id].segmentOf
       IN  /\ p \in DOMAIN events
           /\ events[p].status = "missed"
           /\ Cardinality(Children(p)) = 3
           /\ \A c \in Children(p) \ {res.id} : events[c].status = "completed"

\* C2 (partial completion).  A status update of a segment that leaves a
\* sibling pending does not touch the parent's status, and its response has
\* finalized = false and parentUpdated = false.
C2_PartialNotTerminal ==
    [][ (/\ res'.op \in StatusOps /\ res'.err = ""
         /\ res'.id \in DOMAIN events'
         /\ events'[res'.id].segmentOf # NoParent
         /\ \E k \in ChildrenIn(events', events'[res'.id].segmentOf) :
               ~Resolved(events', k)) =>
            LET p == events'[res'.id].segmentOf
            IN  /\ ~res'.finalized
                /\ ~res'.parentUpdated
                /\ p \in DOMAIN events =>
                      /\ p \in DOMAIN events'
                      /\ events'[p].status = events[p].status ]_vars

\* [Completed, Pending, Missed]: the parent is still pending
C2_Witness ==
    /\ res.op \in StatusOps /\ res.err = "" /\ ~res.finalized
    /\ res.id \in DOMAIN events
    /\ LET p == events[res.id].segmentOf
       IN  /\ p \in DOMAIN events
           /\ events[p].status = NullStatus
           /\ \E a, b, c \in Children(p) :
                 /\ events[a].status = "completed"
                 /\ events[b].status = NullStatus
                 /\ events[c].status = "missed"

\* C3 (monotonicity).  The status of an event only ever goes from null to
\* "completed" or from null to "missed": no request changes the status of an
\* event that is already resolved.
C3_StatusMonotone ==
    [][ \A i \in DOMAIN events \cap DOMAIN events' :
            /\ Resolved(events, i) => events'[i].status = events[i].status
            /\ events'[i].status \in {NullStatus, "completed", "missed"} ]_vars

(***************************************************************************)
(* Properties of the split requests (SpecSplit)                            *)
(***************************************************************************)
\* the two split routes
SplitOps == {"split", "SPLIT_TASK"}

Span(e) == e.end - e.start

\* the events a step has created
Created == DOMAIN events' \ DOMAIN events

\* C6 (180-minute floor).  On both split routes a request on a parent shorter
\* than 180 minutes is answered with an error and creates no event, and a
\* request on a parent of exactly 180 minutes whose count and break leave
\* usable time is accepted.
C6_MinimumDuration ==
    [][ (res'.op \in SplitOps /\ res'.id \in DOMAIN events) =>
            LET parent == events[res'.id]
                usable == UsableMinutes(TotalMinutes(parent.start, parent.end),
                                        res'.n, res'.brk)
            IN  /\ Span(parent) < MinSplitMinutes * MsPerMinute =>
                      /\ res'.err # ""
                      /\ events' = events
                /\ (/\ Span(parent) = MinSplitMinutes * MsPerMinute
                    /\ res'.n >= 2 /\ usable > 0) => res'.err = "" ]_vars

\* C7 (count below two).  On both split routes a request whose count is less
\* than 2 fails with an error and creates no event.
C7_CountBelowTwo ==
    [][ (/\ res'.op \in SplitOps /\ res'.id \in DOMAIN events
         /\ res'.count # Absent /\ res'.count < 2) =>
            /\ res'.err # ""
            /\ events' = events ]_vars

C9_ChildInheritance ==
    [][ (res'.op \in SplitOps /\ res'.err = "" /\ res'.id \in DOMAIN events) =>
            LET parent == events[res'.id]
            IN  /\ Cardinality(Created) = res'.n
                /\ \A c \in Created :
                      /\ events'[c].segmentOf = res'.id
                      /\ events'[c].userId = parent.userId
                      /\ events'[c].importance = parent.importance
                      /\ events'[c].urgency = parent.urgency
                      /\ events'[c].difficulty = parent.difficulty
                      /\ events'[c].status = NullStatus
                /\ {events'[c].segmentIndex : c \in Created} = 0..(res'.n - 1)
                /\ \A c, d \in Created :
                      events'[c].segmentIndex < events'[d].segmentIndex =>
                          events'[c].start < events'[d].start ]_vars

\* C10 (no nesting).  No event that is a segment of another event has
\* segments of its own.
C10_NoNesting ==
    \A c \in DOMAIN events : events[c].segmentOf # NoParent => Children(c) = {}

\* C11 (children never overlap).  The children of one parent carry pairwise
\* distinct segment indexes and, in index order, each child ends no later than
\* the next one starts, also after the same parent was split a second time.
C11_ChildrenDisjoint ==
    \A c, d \in DOMAIN events :
        (/\ c # d
         /\ events[c].segmentOf # NoParent
         /\ events[c].segmentOf = events[d].segmentOf) =>
            /\ events[c].segmentIndex # events[d].segmentIndex
            /\ events[c].segmentIndex < events[d].segmentIndex =>
                  events[c].end <= events[d].start

(***************************************************************************)
(* PUT /events/:id.  A request body holds any subset of the fields; a      *)
(* field that is not sent is Absent (an instant), <<>> (a title) or "" (a   *)
(* user id).                                                               *)
(***************************************************************************)
UpdateBody(title, start, end, userId) ==
    [title |-> title, start |-> start, end |-> end, userId |-> userId]

\* the bodies tried: an end alone, a start alone, both in order, both out of
\* order, a new title, and the whole form of the schedule page, which sends
\* the id of the user who is logged in
UpdateBodies ==
    { UpdateBody(<<>>, Absent, 30 * MsPerMinute, ""),
      UpdateBody(<<>>, 500 * MsPerMinute, Absent, ""),
      UpdateBody(<<>>, 90 * MsPerMinute, 150 * MsPerMinute, ""),
      UpdateBody(<<>>, 150 * MsPerMinute, 90 * MsPerMinute, ""),
      UpdateBody(<<"review">>, Absent, Absent, ""),
      UpdateBody(<<"study">>, 60 * MsPerMinute, 420 * MsPerMinute, "u2") }

\* findByIdAndUpdate(id, req.body): the fields sent replace the stored ones
Patched(ev, body) ==
    [ev EXCEPT !.title = IF body.title # <<>> THEN body.title ELSE @,
               !.start = IF body.start # Absent THEN body.start ELSE @,
               !.end = IF body.end # Absent THEN body.end ELSE @,
               !.userId = IF body.userId # "" THEN body.userId ELSE @]

UpdateEvent(id, body) ==
    /\ IF body.start # Absent /\ body.end # Absent /\ body.end <= body.start
       THEN /\ res' = Resp("update", 400, "end_must_be_after_start")
            /\ UNCHANGED events
       ELSE IF id \notin DOMAIN events
       THEN /\ res' = Resp("update", 404, "event_not_found")
            /\ UNCHANGED events
       ELSE /\ events' = [events EXCEPT ![id] = Patched(@, body)]
            /\ res' = [Resp("update", 200, "") EXCEPT !.id = id]
    /\ UNCHANGED <<nextId, now, seg>>

(***************************************************************************)
(* Calendar days in the server's time zone.  The base instant 0 is a       *)
(* midnight UTC; TZ is Asia/Manila, eight hours ahead and without          *)
(* daylight saving.                                                        *)
(***************************************************************************)
MsPerHour == 60 * MsPerMinute
MsPerDay == 24 * MsPerHour
TzOffsetMs == 8 * MsPerHour

\* a variant that takes the day in UTC
StartOfDayUtc(t) == (t \div MsPerDay) * MsPerDay

\* dayjs(t).tz(TZ).startOf("day")
StartOfDay(t) == ((t + TzOffsetMs) \div MsPerDay) * MsPerDay - TzOffsetMs

\* now.add(1, "day").startOf("day").hour(8).minute(0).second(0)
TomorrowAtEight(t) == StartOfDay(t + MsPerDay) + 8 * MsPerHour

(***************************************************************************)
(* buildSuggestions, on the ends of the conflicting events                 *)
(***************************************************************************)
LatestEnd(ends) == CHOOSE e \in ends : \A f \in ends : f <= e

Slot(start, dur) == [start |-> start, end |-> start + dur * MsPerMinute]

\* a variant that leaves out the slot of the next morning
BuildSuggestionsTwo(ends, newEventDurationMin, t) ==
    IF ends = {} THEN <<>>
    ELSE LET latestEnd == LatestEnd(ends)
             baseStart == IF latestEnd > t THEN latestEnd ELSE t
             dur == Max(1, newEventDurationMin)
         IN  << Slot(baseStart, dur), Slot(baseStart + MsPerHour, dur) >>

BuildSuggestions(ends, newEventDurationMin, t) ==
    IF ends = {} THEN <<>>
    ELSE LET latestEnd == LatestEnd(ends)
             baseStart == IF latestEnd > t THEN latestEnd ELSE t
             dur == Max(1, newEventDurationMin)
         IN  << Slot(baseStart, dur),
                Slot(baseStart + MsPerHour, dur),
                Slot(TomorrowAtEight(t), dur) >>

(***************************************************************************)
(* SpecSuggest: single runs of buildSuggestions on a list of conflict      *)
(* ends, a duration and a clock                                            *)
(***************************************************************************)
SuggestEnds == {100 * MsPerMinute, 420 * MsPerMinute, 1000 * MsPerMinute}
SuggestDurations == {0} \cup (1..MaxSuggestMinutes) \cup {60}

\* local 09:00 and 15:00 of one day, 23:59:30 of the same day and 00:30 of
\* the next (16:30 UTC)
SuggestNows ==
    {60 * MsPerMinute, 420 * MsPerMinute, 959 * MsPerMinute + 30000, 990 * MsPerMinute}

InitSuggest ==
    /\ events = <<>>
    /\ nextId = 1
    /\ now \in SuggestNows
    /\ res = Resp("none", 0, "")
    /\ \E ends \in (SUBSET SuggestEnds) \ {{}}, dur \in SuggestDurations :
          seg = [ends |-> ends, dur |-> dur, done |-> FALSE, slots |-> <<>>]

RunSuggestions ==
    /\ ~seg.done
    /\ seg' = [seg EXCEPT !.done = TRUE,
                          !.slots = BuildSuggestions(seg.ends, seg.dur, now)]
    /\ UNCHANGED <<events, nextId, now, res>>

NextSuggest == RunSuggestions

SpecSuggest == InitSuggest /\ [][NextSuggest]_vars

\* C15 (suggestion ordering).  For a non-empty list of conflicts with latest
\* end E, the clock at now and a duration of D >= 1 minutes, buildSuggestions
\* returns exactly three slots: the first starts at the later of E and now, the
\* second exactly 60 minutes after the first, the third at 08:00 of the
\* calendar day after now in the server's time zone; each slot ends D minutes
\* after it starts.
C15_SuggestionOrder ==
    (seg.done /\ seg.dur >= 1) =>
        LET E == LatestEnd(seg.ends)
            slots == seg.slots
            localNow == now + TzOffsetMs
            localDay == localNow \div MsPerDay
        IN  /\ \A e \in seg.ends : e <= E
            /\ Len(slots) = 3
            /\ slots[1].start = Max(E, now)
            /\ slots[2].start = slots[1].start + 60 * MsPerMinute
            /\ slots[3].start + TzOffsetMs = (localDay + 1) * MsPerDay + 8 * MsPerHour
            /\ \A i \in 1..3 : slots[i].end = slots[i].start + seg.dur * MsPerMinute

\* at 00:30 local time, a conflict that ended the afternoon before: the first
\* slot starts now, the third at 08:00 of the next local day
C15_Witness ==
    /\ seg.done /\ seg.dur = 60
    /\ now = 990 * MsPerMinute
    /\ seg.ends = {420 * MsPerMinute}
    /\ seg.slots[1].start = now
    /\ seg.slots[3].start = (MsPerDay - TzOffsetMs) + MsPerDay + 8 * MsPerHour

(***************************************************************************)
(* POST /chat: the text of a command, kept as what the handlers' regexes   *)
(* see of it.  kw holds the routing keywords the text contains ("add"      *)
(* stands for a leading add/create/make/new), status the completion word,  *)
(* title the words the title clean-up leaves, day the relative day word,   *)
(* range the hours and minutes of the time range as 24-hour values, segNum *)
(* the number after "segment", into/unit/brk the split phrases, and        *)
(* urgent/important/diffWord the attribute words.                          *)
(***************************************************************************)
NoRange == <<>>

NoText ==
    [kw |-> {}, status |-> "", title |-> <<>>, day |-> "", range |-> NoRange,
     segNum |-> Absent, into |-> Absent, unit |-> FALSE, brk |-> Absent,
     urgent |-> FALSE, important |-> FALSE, diffWord |-> "", segWord |-> FALSE]

\* extractDifficulty, extractUrgency, extractImportance
ExtractDifficulty(text) == IF text.diffWord \in {"hard", "easy"} THEN text.diffWord ELSE "medium"
ExtractUrgency(text) == IF text.urgent THEN "high" ELSE "low"
ExtractImportance(text) == IF text.important THEN "high" ELSE "low"

\* findRelativeDay(text) || fallback
DateDay(text, fallback) ==
    IF text.day = "tomorrow" THEN StartOfDay(now + MsPerDay)
    ELSE IF text.day = "today" THEN StartOfDay(now)
    ELSE fallback

NoTr == [start |-> Absent, end |-> Absent]

\* the end of parseTimeRange: the two clock times on the base day, or null
\* unless the end is after the start
RangeOnDay(range, baseDay) ==
    IF range = NoRange THEN NoTr
    ELSE LET day == StartOfDay(baseDay)
             start == day + range[1] * MsPerHour + range[2] * MsPerMinute
             end == day + range[3] * MsPerHour + range[4] * MsPerMinute
         IN  IF end > start THEN [start |-> start, end |-> end] ELSE NoTr

\* Math.max(1, tr.end.diff(tr.start, "minute"))
DurMin(tr) == Max(1, (tr.end - tr.start) \div MsPerMinute)

(***************************************************************************)
(* POST /chat, ADD_TASK                                                    *)
(***************************************************************************)
\* a variant that lets a start at the very instant of the request through
StartsInPastStrict(start) == start < now

\* !tr.start.isAfter(nowPH)
StartsInPast(start) == ~(start > now)

ChatAdd(userId, text) ==
    LET dateDay == DateDay(text, StartOfDay(now))
        tr == RangeOnDay(text.range, dateDay)
        title == GuessTitle(text)
        conflicts == {i \in DOMAIN events :
                         /\ events[i].userId = userId
                         /\ events[i].start = tr.start
                         /\ events[i].end = tr.end}
        echo(r) == Candidate(r, tr.start, tr.end, userId, FALSE)
    IN  /\ IF tr = NoTr
           THEN /\ res' = Resp("ADD_TASK", 200, "no_time_range")
                /\ UNCHANGED <<events, nextId>>
           ELSE IF StartsInPast(tr.start)
           THEN /\ res' = echo(Resp("ADD_TASK", 200, "start_in_past"))
                /\ UNCHANGED <<events, nextId>>
           ELSE IF conflicts # {}
           THEN /\ \E c \in conflicts :
                      res' = echo([Resp("ADD_TASK_CONFLICT", 200, "exact_conflict") EXCEPT
                                     !.conflict = c,
                                     !.suggestions =
                                         BuildSuggestions({events[c].end}, DurMin(tr), now)])
                /\ UNCHANGED <<events, nextId>>
           ELSE /\ events' = (nextId :> NewEvent(title, tr.start, tr.end,
                                                 ExtractImportance(text), ExtractUrgency(text),
                                                 ExtractDifficulty(text), userId,
                                                 NoParent, NoIndex)) @@ events
                /\ nextId' = nextId + 1
                /\ res' = echo([Resp("ADD_TASK", 200, "") EXCEPT !.id = nextId])
        /\ UNCHANGED <<now, seg>>

(***************************************************************************)
(* POST /chat, EDIT_TASK                                                   *)
(***************************************************************************)
\* a || b on strings: b when a is the empty string
OrElse(a, b) == IF a # "" THEN a ELSE b

\* _id: { $ne: ev._id }
Others(id) == DOMAIN events \ {id}

ChatEdit(userId, text) ==
    LET titleGuess == GuessTitle(text)
        cands == Latest({i \in DOMAIN events :
                            /\ events[i].userId = userId
                            /\ TitleMatches(titleGuess, events[i].title)
                            /\ events[i].status = NullStatus})
    IN  /\ IF cands = {}
           THEN /\ res' = Resp("EDIT_TASK", 200, "cannot_find_task")
                /\ UNCHANGED events
           ELSE \E id \in cands :
                LET dateDay == DateDay(text, StartOfDay(events[id].start))
                    tr == RangeOnDay(text.range, dateDay)
                    conflicts == {i \in Others(id) :
                                     /\ events[i].userId = userId
                                     /\ events[i].start = tr.start
                                     /\ events[i].end = tr.end}
                    echo(r) == Candidate([r EXCEPT !.id = id], tr.start, tr.end, userId, FALSE)
                IN  IF tr = NoTr
                    THEN /\ res' = [Resp("EDIT_TASK", 200, "no_time_range") EXCEPT !.id = id]
                         /\ UNCHANGED events
                    ELSE IF conflicts # {}
                    THEN /\ \E c \in conflicts :
                               res' = echo([Resp("EDIT_TASK_CONFLICT", 200, "exact_conflict") EXCEPT
                                              !.conflict = c,
                                              !.suggestions =
                                                  BuildSuggestions({events[c].end}, DurMin(tr), now)])
                         /\ UNCHANGED events
                    ELSE /\ events' = [events EXCEPT
                                          ![id].start = tr.start,
                                          ![id].end = tr.end,
                                          ![id].urgency = OrElse(ExtractUrgency(text), events[id].urgency),
                                          ![id].importance = OrElse(ExtractImportance(text), events[id].importance),
                                          ![id].difficulty = OrElse(ExtractDifficulty(text), events[id].difficulty)]
                         /\ res' = echo(Resp("EDIT_TASK", 200, ""))
        /\ UNCHANGED <<nextId, now, seg>>

(***************************************************************************)
(* SpecEdit: creation requests and the chat commands that add and edit     *)
(***************************************************************************)
AddText(title, day, range) ==
    [NoText EXCEPT !.kw = {"add"}, !.title = title, !.day = day, !.range = range]

EditText(title, day, range) ==
    [NoText EXCEPT !.kw = {"edit"}, !.title = title, !.day = day, !.range = range]

\* "add study 1-2pm", the same one minute later and urgent, "add study
\* tomorrow 9am-3pm", "add gym 11:20-12" (the instant of the first clock
\* value), "add gym 3-1pm" (no valid range), "add study" (no range at all)
AddTexts ==
    { AddText(<<"study">>, "", <<13, 0, 14, 0>>),
      [AddText(<<"study">>, "today", <<13, 1, 14, 1>>) EXCEPT !.urgent = TRUE],
      AddText(<<"study">>, "tomorrow", <<9, 0, 15, 0>>),
      AddText(<<"gym">>, "today", <<11, 20, 12, 0>>),
      AddText(<<"gym">>, "", <<15, 0, 13, 0>>),
      AddText(<<"study">>, "", NoRange) }

\* "reschedule study to 1-2pm" (on the day the event is on), "move study to
\* today 1-2pm", "reschedule study to tomorrow 9am-3pm", "edit gym 9am-3pm
\* hard", "edit study"
EditTexts ==
    { EditText(<<"study">>, "", <<13, 0, 14, 0>>),
      EditText(<<"study">>, "today", <<13, 0, 14, 0>>),
      EditText(<<"study">>, "tomorrow", <<9, 0, 15, 0>>),
      [EditText(<<"gym">>, "", <<9, 0, 15, 0>>) EXCEPT !.diffWord = "hard"],
      EditText(<<"study">>, "", NoRange) }

NextEdit ==
    \/ \E body \in CreateBodies : CreateEvent(body) /\ Within(MaxEditEvents, MaxEditEvents)
    \/ \E userId \in Users, text \in AddTexts :
          ChatAdd(userId, text) /\ Within(MaxEditEvents, MaxEditEvents)
    \/ \E userId \in Users, text \in EditTexts : ChatEdit(userId, text)
    \/ Tick

SpecEdit == Init /\ [][NextEdit]_vars

(***************************************************************************)
(* SpecUpdate: creation and PUT /events/:id                                *)
(***************************************************************************)
UpdateIds == 1..MaxUpdateEvents

NextUpdate ==
    \/ \E body \in CreateBodies : CreateEvent(body) /\ Within(MaxUpdateEvents, MaxUpdateEvents)
    \/ \E id \in UpdateIds, body \in UpdateBodies : UpdateEvent(id, body)

SpecUpdate == Init /\ [][NextUpdate]_vars

(***************************************************************************)
(* Properties of the creation and edit requests (SpecUpdate, SpecEdit)     *)
(***************************************************************************)
\* C16 (valid interval).  Every stored event ends after it starts, whatever
\* sequence of create, edit, split and mark requests led to the state, also
\* after an update that sends only one of start and end.
C16_EndAfterStart ==
    \A i \in DOMAIN events : events[i].end > events[i].start

\* C17 (owner immutable).  No request changes the owner (userId) of an event
\* that is already stored.
C17_OwnerImmutable ==
    [][ \A i \in DOMAIN events \cap DOMAIN events' :
            events'[i].userId = events[i].userId ]_vars

AddOps == {"ADD_TASK", "ADD_TASK_CONFLICT"}

\* the step answers a request: the clock stands still while a handler runs
Request == now' = now
EditOps == {"EDIT_TASK", "EDIT_TASK_CONFLICT"}

\* the stored events of the candidate's owner with exactly the candidate's
\* interval; for an edit, other than the event being edited
ExactMatches(r) ==
    {i \in DOMAIN events :
        /\ events[i].userId = r.userId
        /\ events[i].start = r.start
        /\ events[i].end = r.end
        /\ r.op \in EditOps => i # r.id}

ConflictAnswer(r) ==
    /\ r.op \in AddOps => r.op = "ADD_TASK_CONFLICT"
    /\ r.op \in EditOps => r.op = "EDIT_TASK_CONFLICT"
    /\ r.conflict \in ExactMatches(r)
    /\ Len(r.suggestions) = 3

C19_AddInFuture ==
    [][ (Request /\ res'.op \in AddOps) =>
            /\ (res'.start # Absent /\ ~(res'.start > now)) =>
                  /\ res'.err # ""
                  /\ events' = events
            /\ \A c \in Created : events'[c].start > now ]_vars

\* "add gym 11:20-12" at 11:20: the start is now, not after it
C19_Witness ==
    /\ res.op = "ADD_TASK" /\ res.err = "start_in_past"
    /\ res.start = now
    /\ \A i \in DOMAIN events : events[i].start # res.start

(***************************************************************************)
(* POST /events of src/server.js, and SpecCreate: the creation paths       *)
(***************************************************************************)
MaxCreateEvents == 3

\* the conflict lookup of src/server.js: start < e and end > s
Overlapping(userId, s, e) ==
    {i \in DOMAIN events :
        /\ events[i].userId = userId
        /\ events[i].start < e
        /\ events[i].end > s}

\* app.post("/events") of src/server.js
CreateEventOverlap(body) ==
    LET s == body.start
        e == body.end
        conflicts == Overlapping(body.userId, s, e)
        echo(r) == Candidate(r, s, e, body.userId, body.allowDouble)
    IN  /\ IF body.title = <<>>
           THEN /\ res' = echo(Resp("create", 400, "all_fields_required"))
                /\ UNCHANGED <<events, nextId>>
           ELSE IF e <= s
           THEN /\ res' = echo(Resp("create", 400, "invalid_date_range"))
                /\ UNCHANGED <<events, nextId>>
           ELSE IF conflicts # {} /\ ~body.allowDouble
           THEN /\ \E c \in conflicts :
                      res' = echo([Resp("create", 409, "conflict_detected") EXCEPT
                                     !.id = c, !.conflict = c])
                /\ UNCHANGED <<events, nextId>>
           ELSE /\ events' = (nextId :> EventOfBody(body)) @@ events
                /\ nextId' = nextId + 1
                /\ res' = echo([Resp("create", 201, "") EXCEPT !.id = nextId])
        /\ UNCHANGED <<now, seg>>

\* study 1-2pm (the interval of "add study 1-2pm"), the same shifted by one
\* minute, the hour after it, the first one for another owner, the shifted
\* one with allowDouble, and an empty interval
ShiftBodies ==
    { Body(<<"study">>, 300 * MsPerMinute, 60, 0, "high", "low", "hard", "u1", FALSE),
      Body(<<"study">>, 301 * MsPerMinute, 60, 0, "high", "low", "hard", "u1", FALSE),
      Body(<<"read">>, 360 * MsPerMinute, 60, 0, "low", "low", "", "u1", FALSE),
      Body(<<"gym">>, 300 * MsPerMinute, 60, 0, "low", "high", "", "u2", FALSE),
      Body(<<"study">>, 301 * MsPerMinute, 60, 0, "high", "low", "hard", "u1", TRUE),
      Body(<<"gym">>, 300 * MsPerMinute, 0, 0, "low", "low", "easy", "u2", FALSE) }

NextCreate ==
    \/ \E body \in ShiftBodies :
          CreateEvent(body) /\ Within(MaxCreateEvents, MaxCreateEvents)
    \/ \E body \in ShiftBodies :
          CreateEventOverlap(body) /\ Within(MaxCreateEvents, MaxCreateEvents)
    \/ \E userId \in Users, text \in AddTexts :
          ChatAdd(userId, text) /\ Within(MaxCreateEvents, MaxCreateEvents)

SpecCreate == Init /\ [][NextCreate]_vars

CreateOps == {"create"} \cup AddOps

\* the request carries a candidate that is checked for conflicts: a valid
\* interval, no allowDouble, and for ADD_TASK a start after now
CheckedCandidate(r) ==
    /\ r.op \in CreateOps
    /\ r.start # Absent /\ r.end > r.start
    /\ ~r.allowDouble
    /\ r.err # "all_fields_required"
    /\ r.op \in AddOps => r.start > now

ConflictAnswered(r) == r.code = 409 \/ r.op = "ADD_TASK_CONFLICT"

\* C13 (conflict exactness).  On every creation path that checks conflicts
\* (POST /events without allowDouble, ADD_TASK) the candidate is answered with
\* a conflict if and only if a stored event of the same owner has exactly its
\* start and end; otherwise, also when a stored event merely overlaps it, the
\* candidate is created.
C13_ConflictExactness ==
    [][ (Request /\ CheckedCandidate(res')) =>
            /\ ConflictAnswered(res') <=> ExactMatches(res') # {}
            /\ ~ConflictAnswered(res') =>
                  \E c \in Created :
                      /\ events'[c].start = res'.start
                      /\ events'[c].end = res'.end
                      /\ events'[c].userId = res'.userId ]_vars

(***************************************************************************)
(* POST /chat, DELETE_TASK and DELETE_SEGMENTS                             *)
(***************************************************************************)
MaxDeleteEvents == 4
MaxDeleteRoots == 2

\* guessTitleForDelete: the words left of the text; nothing stands in for an
\* empty title
GuessTitleForDelete(text) == text.title

\* /\bsegments?\b/i.test(lower) || /\bparts?\b/i.test(lower)
IsSegmentsCmd(text) == text.segWord

\* new RegExp("^\\s*" + escapeRegExp(titleGuess) + "\\s*$", "i") tested on a title
TitleIs(guess, title) == title = guess

\* the event a DELETE_TASK command deletes: the latest event of the user whose
\* title is the guess, else the latest whose title contains it, else the
\* latest whose title has every word of it
DeleteTarget(uid, titleGuess) ==
    LET mine == {i \in DOMAIN events : events[i].userId = uid}
        exact == {i \in mine : TitleIs(titleGuess, events[i].title)}
        byTitle == {i \in mine : TitleMatches(titleGuess, events[i].title)}
        byTokens == {i \in mine : TokensMatch(titleGuess, events[i].title)}
    IN  IF exact # {} THEN Latest(exact)
        ELSE IF byTitle # {} THEN Latest(byTitle)
        ELSE Latest(byTokens)

Without(ids) == [i \in (DOMAIN events \ ids) |-> events[i]]

ChatDelete(userId, text) ==
    LET titleGuess == GuessTitleForDelete(text)
        op == IF IsSegmentsCmd(text) THEN "DELETE_SEGMENTS" ELSE "DELETE_TASK"
        parents == ResolveParent(userId, titleGuess)
        targets == DeleteTarget(userId, titleGuess)
    IN  /\ IF titleGuess = <<>>
           THEN /\ res' = Resp(op, 200, "which_task")
                /\ UNCHANGED events
           ELSE IF IsSegmentsCmd(text)
           THEN IF parents = {}
                THEN /\ res' = Resp(op, 200, "cannot_find_parent")
                     /\ UNCHANGED events
                ELSE \E parent \in parents :
                        /\ events' = Without(Children(parent))
                        /\ res' = [Resp(op, 200, "") EXCEPT
                                     !.id = parent, !.parent = parent,
                                     !.n = Cardinality(Children(parent))]
           ELSE IF targets = {}
           THEN /\ res' = Resp(op, 200, "cannot_find_task")
                /\ UNCHANGED events
           ELSE \E ev \in targets :
                   IF events[ev].segmentOf # NoParent
                   THEN /\ events' = Without({ev})
                        /\ res' = [Resp(op, 200, "") EXCEPT
                                     !.id = ev, !.parent = events[ev].segmentOf]
                   ELSE /\ events' = Without({ev} \cup Children(ev))
                        /\ res' = [Resp(op, 200, "") EXCEPT
                                     !.id = ev, !.n = Cardinality(Children(ev))]
        /\ UNCHANGED <<nextId, now, seg>>

DeleteText(title, segWord) == [NoText EXCEPT !.kw = {"delete"}, !.title = title, !.segWord = segWord]

\* "delete study", "delete gym", "delete intro" (the name of a segment),
\* "delete segments of study", "delete segments of intro", "delete",
\* "delete segments"
DeleteTexts ==
    { DeleteText(<<"study">>, FALSE), DeleteText(<<"gym">>, FALSE),
      DeleteText(<<"intro">>, FALSE), DeleteText(<<"study">>, TRUE),
      DeleteText(<<"intro">>, TRUE), DeleteText(<<>>, FALSE), DeleteText(<<>>, TRUE) }

DeleteIds == 1..MaxDeleteEvents

NextDelete ==
    \/ \E body \in CreateBodies : CreateEvent(body) /\ Within(MaxDeleteEvents, MaxDeleteRoots)
    \/ \E id \in DeleteIds, body \in SplitBodies :
          Split(id, body) /\ Within(MaxDeleteEvents, MaxDeleteRoots)
    \/ \E id \in DeleteIds : DeleteEvent(id)
    \/ \E userId \in Users, text \in DeleteTexts : ChatDelete(userId, text)

SpecDelete == Init /\ [][NextDelete]_vars

\* the step deletes the stored event res'.id as a whole: through DELETE
\* /events/:id, or through a DELETE_TASK command that resolved to an event
\* which is not a segment
DeletesParent ==
    /\ Request
    /\ res'.id \in DOMAIN events
    /\ \/ res'.op = "delete"
       \/ /\ res'.op = "DELETE_TASK" /\ res'.err = ""
          /\ events[res'.id].segmentOf = NoParent

\* C12 (delete cascade).  After a delete of a parent event, through DELETE
\* /events/:id or through a DELETE_TASK command that resolves to an event
\* which is not a segment, the event is gone and no event whose segmentOf is
\* its id remains in the store.
C12_DeleteCascade ==
    [][ DeletesParent =>
            /\ res'.id \notin DOMAIN events'
            /\ \A i \in DOMAIN events' : events'[i].segmentOf # res'.id ]_vars

\* "delete study" after the study event has been split: the store has lost
\* the parent and holds no segment any more
C12_Witness ==
    /\ res.op = "DELETE_TASK" /\ res.err = ""
    /\ res.n >= 2
    /\ res.id \notin DOMAIN events
    /\ nextId > res.id + res.n

(***************************************************************************)
(* The end-time rule of the mark commands (SpecStatus)                     *)
(***************************************************************************)
MarkOps == {"MARK", "MARK_SEGMENT"}

\* the event ends strictly after now, or it has a segment that does
EndsAfterNow(id) ==
    \/ events[id].end > now
    \/ \E c \in Children(id) : events[c].end > now

\* C18 (end-time rule).  A completed mark through the MARK or MARK_SEGMENT
\* command on an event whose end is strictly after now, or on a parent with a
\* segment whose end is strictly after now, is rejected and changes no status;
\* a missed mark on an event is accepted however its end compares to now.
C18_CompletedNeedsPastEnd ==
    [][ (Request /\ res'.op \in MarkOps /\ res'.id \in DOMAIN events) =>
            /\ (res'.status = "completed" /\ EndsAfterNow(res'.id)) =>
                  /\ res'.err # ""
                  /\ events' = events
            /\ res'.status = "missed" =>
                  /\ res'.err = ""
                  /\ events'[res'.id].status = "missed" ]_vars

(***************************************************************************)
(* POST /chat: intent routing.  kw holds the rules' keywords found in the  *)
(* text: "productivity" (productivity, good week, bad week, weekly), "add" *)
(* (a leading add, create, make or new), "edit" (edit, reschedule, move),  *)
(* "mark" (mark, marked, set), "delete" (delete, remove), "split" and      *)
(* "schedule"; status holds the completion word.                           *)
(***************************************************************************)
MaxChatEvents == 3
MaxChatRoots == 1

\* a variant that takes the mark verb alone for a mark command
MarkMatchesVerb(text) == "mark" \in text.kw

\* /\b(mark(?:ed)?|set)\b/ and /\b(complete|completed|missed|incomplete)\b/
MarkMatches(text) == "mark" \in text.kw /\ text.status \in MarkStatuses

\* the handlers that only read the store (PRODUCTIVITY, SCHEDULE) and the
\* fallback: the response names the intent and the keywords of the text
Answer(intent, text) ==
    /\ res' = [Resp(intent, 200, "") EXCEPT !.kw = text.kw, !.status = text.status]
    /\ UNCHANGED <<events, nextId, now, seg>>

Chat(userId, text) ==
    IF "productivity" \in text.kw THEN Answer("PRODUCTIVITY", text)
    ELSE IF "add" \in text.kw THEN ChatAdd(userId, text)
    ELSE IF "edit" \in text.kw THEN ChatEdit(userId, text)
    ELSE IF MarkMatches(text)
    THEN IF text.segNum # Absent
         THEN ChatMarkSegment(userId, GuessTitle(text), text.segNum, text.status)
         ELSE ChatMark(userId, GuessTitle(text), text.status)
    ELSE IF "delete" \in text.kw THEN ChatDelete(userId, text)
    ELSE IF "split" \in text.kw THEN ChatSplit(userId, text)
    ELSE IF "schedule" \in text.kw THEN Answer("SCHEDULE", text)
    ELSE Answer("UNKNOWN", text)

ChatText(kw, status, title) == [NoText EXCEPT !.kw = kw, !.status = status, !.title = title]

\* "what's my productivity", "add weekly review 1-2pm", "add study 1-2pm",
\* "add study 1:01-2:01pm, then move it", "reschedule study to tomorrow
\* 9am-3pm", "move study and mark it completed", "mark study completed",
\* "mark study missed", "mark segment 1 of study missed", "set study to
\* removed", "mark removed study completed", "delete study", "delete segments
\* of study", "delete split study", "split study into 2 segments", "split study schedule", "what's my
\* schedule", "hello", "set study", "study completed"
ChatTexts ==
    { ChatText({"productivity"}, "", <<>>),
      [ChatText({"productivity", "add"}, "", <<"review">>) EXCEPT !.range = <<13, 0, 14, 0>>],
      [ChatText({"add"}, "", <<"study">>) EXCEPT !.range = <<13, 0, 14, 0>>],
      [ChatText({"add", "edit"}, "", <<"study">>) EXCEPT !.range = <<13, 1, 14, 1>>],
      [ChatText({"edit"}, "", <<"study">>) EXCEPT !.day = "tomorrow", !.range = <<9, 0, 15, 0>>],
      [ChatText({"edit", "mark"}, "completed", <<"study">>) EXCEPT !.range = <<13, 0, 14, 0>>],
      ChatText({"mark"}, "completed", <<"study">>),
      ChatText({"mark"}, "missed", <<"study">>),
      [ChatText({"mark"}, "missed", <<"study">>) EXCEPT !.segNum = 1],
      ChatText({"mark", "delete"}, "", <<"study">>),
      ChatText({"mark", "delete"}, "completed", <<"study">>),
      ChatText({"delete"}, "", <<"study">>),
      [ChatText({"delete"}, "", <<"study">>) EXCEPT !.segWord = TRUE],
      ChatText({"delete", "split"}, "", <<"study">>),
      [ChatText({"split"}, "", <<"study">>) EXCEPT !.into = 2, !.unit = TRUE],
      ChatText({"split", "schedule"}, "", <<"study">>),
      ChatText({"schedule"}, "", <<>>),
      ChatText({}, "", <<"hello">>),
      ChatText({"mark"}, "", <<"study">>),
      ChatText({}, "completed", <<"study">>) }

\* the owner of the study event is the one who sends the commands
ChatUsers == {"u1"}

\* the 360-minute study event
ChatBodies == {b \in CreateBodies : b.title = <<"study">> /\ ~b.allowDouble}

NextChat ==
    \/ \E body \in ChatBodies : CreateEvent(body) /\ Within(MaxChatEvents, MaxChatRoots)
    \/ \E userId \in ChatUsers, text \in ChatTexts :
          Chat(userId, text) /\ Within(MaxChatEvents, MaxChatRoots)
    \/ Tick

SpecChat == Init /\ [][NextChat]_vars

\* the rules in the order of the claim, and the intents the handler of each
\* rule answers with
Rules == <<"productivity", "add", "edit", "mark", "delete", "split", "schedule">>

RuleMatches(text, rule) ==
    IF rule = "mark"
    THEN "mark" \in text.kw /\ text.status \in {"completed", "missed"}
    ELSE rule \in text.kw

FirstRule(text) ==
    LET hits == {k \in DOMAIN Rules : RuleMatches(text, Rules[k])}
    IN  IF hits = {} THEN "unknown"
        ELSE Rules[CHOOSE k \in hits : \A j \in hits : k <= j]

IntentsOf(rule) ==
    CASE rule = "productivity" -> {"PRODUCTIVITY"}
      [] rule = "add" -> AddOps
      [] rule = "edit" -> EditOps
      [] rule = "mark" -> MarkOps
      [] rule = "delete" -> {"DELETE_TASK", "DELETE_SEGMENTS"}
      [] rule = "split" -> {"SPLIT_TASK"}
      [] rule = "schedule" -> {"SCHEDULE"}
      [] OTHER -> {"UNKNOWN"}

\* C20 (intent routing).  For every text the handler that answers is the one
\* of the earliest rule, in the order productivity, add, edit, mark with a
\* completion word, delete, split, schedule, whose pattern matches the text;
\* a text that matches no rule is answered with the intent UNKNOWN and the
\* store is unchanged.
C20_FirstMatchWins ==
    [][ \A userId \in ChatUsers, text \in ChatTexts :
            Chat(userId, text) =>
                /\ res'.op \in IntentsOf(FirstRule(text))
                /\ FirstRule(text) = "unknown" => events' = events ]_vars

\* "set study" with a study event stored: the mark verb without a completion
\* word matches no rule, and the answer is UNKNOWN
C20_Witness ==
    /\ res.op = "UNKNOWN"
    /\ "mark" \in res.kw /\ res.status = ""
    /\ events # <<>>

(***************************************************************************)
(* The frame of an edit command (SpecEdit)                                 *)
(***************************************************************************)
\* the text has none of the words urgent, important, hard, easy
NoAttributeWord(text) == ~text.urgent /\ ~text.important /\ text.diffWord = ""

\* C30 (edit frame).  A successful EDIT_TASK command whose text has none of
\* the attribute words urgent, important, hard and easy changes only the
\* start and the end of its target: the target keeps its importance, urgency
\* and difficulty, and no other event is modified.
C30_EditKeepsAttributes ==
    [][ \A userId \in Users, text \in EditTexts :
            (/\ ChatEdit(userId, text)
             /\ res'.op = "EDIT_TASK" /\ res'.err = ""
             /\ NoAttributeWord(text)) =>
                /\ DOMAIN events' = DOMAIN events
                /\ \A i \in DOMAIN events :
                      events'[i] = IF i = res'.id
                                   THEN [events[i] EXCEPT !.start = res'.start,
                                                          !.end = res'.end]
                                   ELSE events[i] ]_vars

(***************************************************************************)
(* SpecPatch: PATCH /events/:id/status alone, on one segmented event       *)
(***************************************************************************)
PatchStatuses == {"completed", "missed", "pending"}

NextPatch ==
    \E id \in FamilyIds, status \in PatchStatuses : StatusUpdate(id, status)

SpecPatch == InitStatus /\ [][NextPatch]_vars

\* C29 (completed parent).  After any sequence of status updates on a parent
\* and its segments, a parent whose status is completed has no segment whose
\* status is missed and none whose status is still pending.
C29_CompletedParentChildren ==
    \A p \in DOMAIN events :
        (events[p].segmentOf = NoParent /\ events[p].status = "completed") =>
            \A c \in Children(p) : events[c].status = "completed"

\* the step is an accepted status update of a segment whose parent is stored
ChildUpdate ==
    /\ res'.op = "status" /\ res'.code = 200
    /\ res'.id \in DOMAIN events
    /\ events[res'.id].segmentOf \in DOMAIN events

\* the parent has been finalized: all its segments are resolved and so is it
Finalized(p) ==
    /\ events[p].status # NullStatus
    /\ \A c \in Children(p) : events[c].status # NullStatus

\* C22 (finalization once).  Once a parent has been finalized because all its
\* segments are resolved, a later status update of one of the segments does
\* not write the status of the parent again; and a status update of a segment
\* never changes the status of another segment of the same parent.
C22_FinalizationOnce ==
    [][ ChildUpdate =>
            LET p == events[res'.id].segmentOf
            IN  /\ Finalized(p) =>
                      /\ ~res'.parentUpdated
                      /\ events'[p].status = events[p].status
                /\ \A c \in Children(p) \ {res'.id} :
                      events'[c].status = events[c].status ]_vars

\* C24 (missed parent).  Marking a parent missed through PATCH
\* /events/:id/status sets the status of the parent only: every segment of
\* the parent has the same status after the request as before it.
C24_MissedParentNoCascade ==
    [][ \A id \in FamilyIds :
            (/\ StatusUpdate(id, "missed")
             /\ id \in DOMAIN events
             /\ events[id].segmentOf = NoParent) =>
                /\ events'[id].status = "missed"
                /\ \A c \in DOMAIN events \ {id} : events'[c] = events[c] ]_vars

\* the parent has been marked missed while a segment is pending and another
\* one is completed
C24_Witness ==
    /\ res.op = "status" /\ res.code = 200
    /\ res.id \in DOMAIN events
    /\ events[res.id].segmentOf = NoParent
    /\ events[res.id].status = "missed"
    /\ \E c, d \in Children(res.id) :
          events[c].status = NullStatus /\ events[d].status = "completed"

\* the step marks the stored parent res'.id completed: through PATCH
\* /events/:id/status or through an accepted MARK command
ParentCompleted ==
    /\ Request
    /\ res'.id \in DOMAIN events
    /\ events[res'.id].segmentOf = NoParent
    /\ \/ res'.op = "status" /\ res'.code = 200
       \/ res'.op = "MARK" /\ res'.err = "" /\ res'.status = "completed"
    /\ events'[res'.id].status = "completed"

\* C23 (completed cascade).  Marking a parent completed, through PATCH
\* /events/:id/status or through the MARK command, sets to completed exactly
\* the segments whose status is still pending and leaves every segment whose
\* status is missed as missed.
C23_CascadeToPending ==
    [][ ParentCompleted =>
            \A c \in Children(res'.id) :
                events'[c].status = IF events[c].status = NullStatus
                                    THEN "completed" ELSE events[c].status ]_vars

(***************************************************************************)
(* parseTimeRange, on what its pattern extracts: the two hours, the two    *)
(* minutes and the two meridiems ("" for a side without am/pm)             *)
(***************************************************************************)
MaxParseHour == 13

NoAp == ""

\* a variant that adds 12 hours for pm without wrapping 12 to 0 first
To24NoWrap(h, ap) == IF ap = "pm" THEN h + 12 ELSE h

\* to24: 12am -> 0, 12pm -> 12
To24(h, ap) ==
    IF ap = NoAp THEN h
    ELSE LET base == h % 12
         IN  IF ap = "pm" THEN base + 12 ELSE base

ParseTimeRange(h1, min1, ap1, h2, min2, ap2, baseDay) ==
    LET toSecond == ap1 # NoAp /\ ap2 = NoAp /\ h2 <= 12
        toFirst == ~toSecond /\ ap1 = NoAp /\ ap2 # NoAp /\ h1 <= 12
        H1a == IF toFirst THEN To24(h1, ap2) ELSE To24(h1, ap1)
        H2a == IF toSecond THEN To24(h2, ap1) ELSE To24(h2, ap2)
        roll == /\ ap1 = NoAp /\ ap2 = NoAp
                /\ H1a <= 12 /\ H2a <= 12
                /\ H2a <= H1a
        H2 == IF roll /\ H2a + 12 <= 23 THEN H2a + 12 ELSE H2a
        H1 == IF roll /\ H2 <= H1a /\ H1a + 12 <= 23 THEN H1a + 12 ELSE H1a
    IN  RangeOnDay(<<H1, min1, H2, min2>>, baseDay)

(***************************************************************************)
(* SpecParse: single runs of parseTimeRange                                *)
(***************************************************************************)
ParseHours == 0..MaxParseHour
ParseMinutes == {0, 30, 45}
ParseAps == {NoAp, "am", "pm"}

InitParse ==
    /\ events = <<>>
    /\ nextId = 1
    /\ now = 200 * MsPerMinute
    /\ res = Resp("none", 0, "")
    /\ \E h1 \in ParseHours, h2 \in ParseHours, min1 \in ParseMinutes,
          min2 \in ParseMinutes, ap1 \in ParseAps, ap2 \in ParseAps :
          seg = [h1 |-> h1, min1 |-> min1, ap1 |-> ap1,
                 h2 |-> h2, min2 |-> min2, ap2 |-> ap2,
                 done |-> FALSE, tr |-> NoTr]

RunParse ==
    /\ ~seg.done
    /\ seg' = [seg EXCEPT !.done = TRUE,
                          !.tr = ParseTimeRange(seg.h1, seg.min1, seg.ap1,
                                                seg.h2, seg.min2, seg.ap2, now)]
    /\ UNCHANGED <<events, nextId, now, res>>

NextParse == RunParse

SpecParse == InitParse /\ [][NextParse]_vars

\* the instant of a clock time on the day of now
OnDay(h, min) == StartOfDay(now) + h * MsPerHour + min * MsPerMinute

\* an hour of the 12-hour clock with its meridiem, as an hour of the day
Meridiem(h, ap) == (h % 12) + (IF ap = "pm" THEN 12 ELSE 0)

\* the range, or a parse failure unless the end is after the start
RangeOrFailure(start, end) ==
    IF end > start THEN [start |-> start, end |-> end] ELSE NoTr

\* C25 (meridiem propagation).  For a range where exactly one side carries
\* am/pm and the other side is a bare hour in 1..12, both sides are converted
\* with the meridiem of the marked side ("2-4pm" is 14:00-16:00, "9am-11" is
\* 09:00-11:00), and the parse fails whenever the resulting end is not after
\* the resulting start.
C25_MeridiemPropagation ==
    (/\ seg.done
     /\ \/ seg.ap1 # NoAp /\ seg.ap2 = NoAp /\ seg.h2 \in 1..12
        \/ seg.ap1 = NoAp /\ seg.ap2 # NoAp /\ seg.h1 \in 1..12) =>
        LET ap == IF seg.ap1 # NoAp THEN seg.ap1 ELSE seg.ap2
        IN  seg.tr = RangeOrFailure(OnDay(Meridiem(seg.h1, ap), seg.min1),
                                    OnDay(Meridiem(seg.h2, ap), seg.min2))

\* "2-4pm" has been parsed
C25_Witness ==
    /\ seg.done
    /\ seg.h1 = 2 /\ seg.min1 = 0 /\ seg.ap1 = NoAp
    /\ seg.h2 = 4 /\ seg.min2 = 0 /\ seg.ap2 = "pm"
    /\ seg.tr = [start |-> OnDay(14, 0), end |-> OnDay(16, 0)]

\* C26 (rollover).  For a range with am/pm on neither side the 12-hour
\* rollover is applied only when the naive end time (hour and minute) is not
\* after the naive start time: a range whose naive end is after its naive
\* start ("9:30-9:45", "2-4") is returned as it is; and every returned range
\* has its end strictly after its start, on the base day.
C26_RolloverOnlyWhenNeeded ==
    (seg.done /\ seg.ap1 = NoAp /\ seg.ap2 = NoAp) =>
        /\ OnDay(seg.h2, seg.min2) > OnDay(seg.h1, seg.min1) =>
              seg.tr = [start |-> OnDay(seg.h1, seg.min1),
                        end |-> OnDay(seg.h2, seg.min2)]
        /\ seg.tr # NoTr =>
              /\ seg.tr.end > seg.tr.start
              /\ seg.tr.start >= OnDay(0, 0)
              /\ seg.tr.end < OnDay(24, 0)

(***************************************************************************)
(* GET /dashboard/weekly/:userId.  Days are counted in the server's time   *)
(* zone from the day of instant 0, which is taken to be a Monday.          *)
(***************************************************************************)
MaxDashEvents == 3
MaxDashRoots == 2

\* $dateToString: { date, timezone: TZ, format: "%Y-%m-%d" }
DayKey(t) == (t + TzOffsetMs) \div MsPerDay

\* dayjs().day(): 0 = Sunday, 1 = Monday, ...
DayOfWeek(t) == (DayKey(t) + 1) % 7

\* today.subtract((dow + 6) % 7, "day").startOf("day")
MondayOf(t) == StartOfDay(t) - ((DayOfWeek(t) + 6) % 7) * MsPerDay

\* monday.add(6, "day").endOf("day")
WindowEnd(t) == MondayOf(t) + 7 * MsPerDay - 1

\* $match: { userId, end: { $gte: windowStart, $lte: windowEnd } }
Matched(userId, t) ==
    {i \in DOMAIN events :
        /\ events[i].userId = userId
        /\ events[i].end >= MondayOf(t)
        /\ events[i].end <= WindowEnd(t)}

IsChild(i) == events[i].segmentOf # NoParent

\* _id of the first $group: { parentId, dayKey }
GroupKey(i) ==
    <<IF IsChild(i) THEN events[i].segmentOf ELSE i, DayKey(events[i].end)>>

\* the two $project stages, for the documents of one group
GroupRow(members) ==
    LET totalChildren == Cardinality({i \in members : IsChild(i)})
        completedChildren ==
            Cardinality({i \in members : IsChild(i) /\ events[i].status = "completed"})
        standaloneCompleted ==
            Cardinality({i \in members : ~IsChild(i) /\ events[i].status = "completed"})
        standaloneTotal == Cardinality({i \in members : ~IsChild(i)})
        parentCompleted ==
            IF totalChildren > 0 /\ completedChildren = totalChildren THEN 1 ELSE 0
        parentMissed ==
            IF totalChildren > 0 /\ completedChildren # totalChildren THEN 1 ELSE 0
        standaloneMissed ==
            IF standaloneTotal > 0 THEN standaloneTotal - standaloneCompleted ELSE 0
    IN  [completed |-> parentCompleted + standaloneCompleted,
         missed |-> parentMissed + standaloneMissed]

RECURSIVE SumRows(_, _)
\* the second $group: the sums of the rows of the groups in keys
SumRows(keys, matched) ==
    IF keys = {} THEN [completed |-> 0, missed |-> 0]
    ELSE LET k == CHOOSE x \in keys : TRUE
             row == GroupRow({i \in matched : GroupKey(i) = k})
             rest == SumRows(keys \ {k}, matched)
         IN  [completed |-> row.completed + rest.completed,
              missed |-> row.missed + rest.missed]

\* the seven buckets, Monday first
WeeklyBuckets(userId, t) ==
    LET matched == Matched(userId, t)
        monday == DayKey(MondayOf(t))
    IN  [d \in 1..7 |->
            SumRows({GroupKey(i) : i \in {j \in matched :
                                            DayKey(events[j].end) = monday + d - 1}},
                    matched)]

DashboardWeekly(userId) ==
    /\ res' = [Resp("dashboard", 200, "") EXCEPT !.userId = userId]
    /\ seg' = [userId |-> userId, buckets |-> WeeklyBuckets(userId, now)]
    /\ UNCHANGED <<events, nextId, now>>

DashIds == 1..MaxDashEvents

NextDash ==
    \/ \E body \in CreateBodies : CreateEvent(body) /\ Within(MaxDashEvents, MaxDashRoots)
    \/ \E id \in DashIds, body \in SplitBodies :
          Split(id, body) /\ Within(MaxDashEvents, MaxDashRoots)
    \/ \E id \in DashIds, status \in PatchStatuses : StatusUpdate(id, status)
    \/ \E userId \in Users : DashboardWeekly(userId)

SpecDash == Init /\ [][NextDash]_vars

\* the events of the user with the given status that end on day d of the
\* week of now (1 = Monday)
EndingOn(userId, d, status) ==
    {i \in DOMAIN events :
        /\ events[i].userId = userId
        /\ events[i].status = status
        /\ DayKey(events[i].end) = DayKey(MondayOf(now)) + d - 1}

\* C21 (weekly aggregate).  In each of the seven day buckets of the weekly
\* aggregate, missed counts only events whose status is missed and completed
\* counts only events whose status is completed: an event whose status is
\* still pending adds to neither count.
C21_PendingNotCounted ==
    [][ res'.op = "dashboard" =>
            \A d \in 1..7 :
                /\ seg'.buckets[d].missed
                      <= Cardinality(EndingOn(seg'.userId, d, "missed"))
                /\ seg'.buckets[d].completed
                      <= Cardinality(EndingOn(seg'.userId, d, "completed")) ]_vars

(***************************************************************************)
(* Two PATCH /events/:id/status requests in flight at once.  Each await of *)
(* the handler is one step: findById, event.save(), Event.find of the      *)
(* children, findByIdAndUpdate of the parent.  seg.reqs holds, for each    *)
(* request, its parameters, its position and its locals.                   *)
(***************************************************************************)
Requests == {1, 2}

\* a handler that reads the children before it saves its own event
NextPcReadFirst(pc) ==
    CASE pc = "start" -> "find"
      [] pc = "find" -> "save"
      [] pc = "save" -> "update"
      [] OTHER -> "done"

\* the order of the awaits of the handler
NextPc(pc) ==
    CASE pc = "start" -> "save"
      [] pc = "save" -> "find"
      [] pc = "find" -> "update"
      [] OTHER -> "done"

\* a parent with 2..MaxChildren segments of which two are unresolved, and one
\* request for each of the two
InitRace ==
    /\ \E body \in FamilyBodies, count \in 2..MaxChildren :
       \E a, b \in 2..(count + 1), sa, sb \in {"completed", "missed"} :
       \E st \in [2..(count + 1) -> {"completed", "missed"}] :
          /\ a < b
          /\ events = [i \in DOMAIN Family(body, count) |->
                          IF i = 1 \/ i \in {a, b} THEN Family(body, count)[i]
                          ELSE [Family(body, count)[i] EXCEPT !.status = st[i]]]
          /\ \A i \in {a, b} : st[i] = "completed"   \* st matters for the others only
          /\ nextId = count + 2
          /\ seg = [reqs |-> [r \in Requests |->
                       [id |-> IF r = 1 THEN a ELSE b,
                        status |-> IF r = 1 THEN sa ELSE sb,
                        pc |-> "start",
                        children |-> <<>>,
                        parentUpdated |-> FALSE]]]
    /\ now = 200 * MsPerMinute
    /\ res = Resp("none", 0, "")

\* const event = await Event.findById(id)
RaceFindById(r) ==
    /\ seg.reqs[r].pc = "start"
    /\ seg.reqs[r].id \in DOMAIN events
    /\ seg' = [seg EXCEPT !.reqs[r].pc = NextPc("start")]
    /\ UNCHANGED <<events, nextId, now, res>>

\* event.status = status; await event.save()
RaceSave(r) ==
    /\ seg.reqs[r].pc = "save"
    /\ events' = [events EXCEPT ![seg.reqs[r].id].status = seg.reqs[r].status]
    /\ seg' = [seg EXCEPT !.reqs[r].pc = NextPc("save")]
    /\ UNCHANGED <<nextId, now, res>>

\* const children = await Event.find({ segmentOf: parentId }).lean()
RaceFindChildren(r) ==
    /\ seg.reqs[r].pc = "find"
    /\ LET parentId == events[seg.reqs[r].id].segmentOf
       IN  seg' = [seg EXCEPT
                     !.reqs[r].pc = NextPc("find"),
                     !.reqs[r].children =
                         [c \in Children(parentId) |-> events[c].status]]
    /\ UNCHANGED <<events, nextId, now, res>>

\* if (completed + missed === total) await Event.findByIdAndUpdate(parentId, ...)
RaceUpdateParent(r) ==
    /\ seg.reqs[r].pc = "update"
    /\ LET children == seg.reqs[r].children
           parentId == events[seg.reqs[r].id].segmentOf
           total == Cardinality(DOMAIN children)
           completed == Cardinality({c \in DOMAIN children : children[c] = "completed"})
           missed == Cardinality({c \in DOMAIN children : children[c] = "missed"})
           fires == AllResolved(completed, missed, total)
       IN  /\ events' = IF fires /\ parentId \in DOMAIN events
                        THEN [events EXCEPT ![parentId].status = FinalStatus(missed)]
                        ELSE events
           /\ seg' = [seg EXCEPT !.reqs[r].pc = NextPc("update"),
                                 !.reqs[r].parentUpdated = fires]
           /\ res' = [Resp("status", 200, "") EXCEPT
                        !.id = seg.reqs[r].id,
                        !.parentUpdated = fires,
                        !.parent = IF fires THEN parentId ELSE 0,
                        !.finalized = fires]
    /\ UNCHANGED <<nextId, now>>

NextRace ==
    \E r \in Requests :
        \/ RaceFindById(r)
        \/ RaceSave(r)
        \/ RaceFindChildren(r)
        \/ RaceUpdateParent(r)

SpecRace == InitRace /\ [][NextRace]_vars

RaceDone == \A r \in Requests : seg.reqs[r].pc = "done"

\* C27 (implicit concurrency).  In every interleaving of two concurrent
\* status-update requests that mark the last two unresolved children of one
\* parent, once both requests have finished the parent's status is resolved,
\* and it is missed exactly when at least one of the children is missed.
C27_ConcurrentFinalization ==
    RaceDone =>
        /\ events[1].status \in {"completed", "missed"}
        /\ events[1].status = "missed"
              <=> \E c \in Children(1) : events[c].status = "missed"

\* both requests finished, each of them having read the children after the
\* other one's save and written the parent, one child completed and one missed
C27_Witness ==
    /\ RaceDone
    /\ \A r \in Requests : seg.reqs[r].parentUpdated
    /\ events[seg.reqs[1].id].status = "completed"
    /\ events[seg.reqs[2].id].status = "missed"
    /\ events[1].status = "missed"

(***************************************************************************)
(* POST /events/:id/split and DELETE /events/:id in flight at once on the  *)
(* same parent.  Each await is one step, and each Event.create of the      *)
(* Promise.all is a step of its own.  seg.split and seg.del hold the       *)
(* position and the locals of the two requests.                            *)
(***************************************************************************)
\* the parent alone, or the parent with the two segments of an earlier split
InitOrphan ==
    /\ \E body \in CreateBodies, split \in SplitBodies, had \in BOOLEAN :
          /\ events = IF had /\ body \in FamilyBodies
                      THEN Family(body, 2) ELSE (1 :> EventOfBody(body))
          /\ nextId = IF had /\ body \in FamilyBodies THEN 4 ELSE 2
          /\ seg = [split |-> [pc |-> "start", id |-> 1, body |-> split,
                               docs |-> <<>>, pending |-> {}],
                    del |-> [pc |-> "start", id |-> 1]]
    /\ now = 200 * MsPerMinute
    /\ res = Resp("none", 0, "")

\* const parent = await Event.findById(id), the checks and the plan
SplitFindParent ==
    LET id == seg.split.id
        count == seg.split.body.count
        breakMinutes == seg.split.body.breakMinutes
        titlePrefix == seg.split.body.titlePrefix
        n == SplitCount(count)
        brk == SplitBreak(breakMinutes)
    IN
    /\ seg.split.pc = "start"
    /\ IF id \notin DOMAIN events
       THEN /\ res' = Resp("split", 404, "parent_not_found")
            /\ seg' = [seg EXCEPT !.split.pc = "done"]
            /\ UNCHANGED nextId
       ELSE LET parent == events[id]
                sp == SplitPlan(parent.start, parent.end, count, breakMinutes)
                baseTitle == IF titlePrefix # <<>> THEN titlePrefix ELSE parent.title
                docs == SegmentDocs(parent, id, sp.plan, nextId, baseTitle,
                                    seg.split.body.titles)
            IN  IF sp.err # ""
                THEN /\ res' = [Resp("split", 400, sp.err) EXCEPT
                                  !.id = id, !.count = count, !.n = n, !.brk = brk]
                     /\ seg' = [seg EXCEPT !.split.pc = "done"]
                     /\ UNCHANGED nextId
                ELSE /\ seg' = [seg EXCEPT !.split.pc = "create",
                                           !.split.docs = docs,
                                           !.split.pending = DOMAIN docs]
                     /\ nextId' = nextId + n
                     /\ UNCHANGED res
    /\ UNCHANGED <<events, now>>

\* one Event.create of the Promise.all; the response follows the last one
SplitCreateChild(c) ==
    /\ seg.split.pc = "create"
    /\ c \in seg.split.pending
    /\ events' = (c :> seg.split.docs[c]) @@ events
    /\ IF seg.split.pending = {c}
       THEN /\ seg' = [seg EXCEPT !.split.pc = "done", !.split.pending = {}]
            /\ res' = [Resp("split", 200, "") EXCEPT
                         !.id = seg.split.id,
                         !.count = seg.split.body.count,
                         !.n = SplitCount(seg.split.body.count),
                         !.brk = SplitBreak(seg.split.body.breakMinutes)]
       ELSE /\ seg' = [seg EXCEPT !.split.pending = @ \ {c}]
            /\ UNCHANGED res
    /\ UNCHANGED <<nextId, now>>

\* const ev = await Event.findById(id).lean()
DeleteFindById ==
    /\ seg.del.pc = "start"
    /\ IF seg.del.id \notin DOMAIN events
       THEN /\ seg' = [seg EXCEPT !.del.pc = "done"]
            /\ res' = [Resp("delete", 200, "") EXCEPT !.id = seg.del.id]
       ELSE /\ seg' = [seg EXCEPT !.del.pc = "deleteParent"]
            /\ UNCHANGED res
    /\ UNCHANGED <<events, nextId, now>>

\* await Event.findByIdAndDelete(id)
DeleteParent ==
    /\ seg.del.pc = "deleteParent"
    /\ events' = [i \in (DOMAIN events \ {seg.del.id}) |-> events[i]]
    /\ seg' = [seg EXCEPT !.del.pc = "deleteChildren"]
    /\ UNCHANGED <<nextId, now, res>>

\* await Event.deleteMany({ segmentOf: id })
DeleteChildren ==
    /\ seg.del.pc = "deleteChildren"
    /\ events' = [i \in (DOMAIN events \ Children(seg.del.id)) |-> events[i]]
    /\ seg' = [seg EXCEPT !.del.pc = "done"]
    /\ res' = [Resp("delete", 200, "") EXCEPT !.id = seg.del.id]
    /\ UNCHANGED <<nextId, now>>

NextOrphan ==
    \/ SplitFindParent
    \/ \E c \in 1..(MaxCount + 3) : SplitCreateChild(c)
    \/ DeleteFindById
    \/ DeleteParent
    \/ DeleteChildren

SpecOrphan == InitOrphan /\ [][NextOrphan]_vars

\* C28 (implicit concurrency).  In every interleaving of a split request and
\* a delete request on the same parent, once both requests have finished no
\* event is left whose parent does not exist.
C28_NoOrphans ==
    (seg.split.pc = "done" /\ seg.del.pc = "done") =>
        \A i \in DOMAIN events :
            events[i].segmentOf # NoParent => events[i].segmentOf \in DOMAIN events

====
